---- MODULE Spec2Model ----
(***************************************************************************)
(* A model of the Keycloak group-resource client (package keycloak):       *)
(* the error response decoder (error.go), the endpoint/URL builder, the    *)
(* query parameter projector (util.go) and the group operations of         *)
(* group.go, with the identity server as the environment.                  *)
(*                                                                         *)
(* A Go string is modelled as a sequence of symbols (the empty string is   *)
(* the empty sequence); a symbol is one character or one run of characters *)
(* that no operation of the client ever splits.  A pointer is a sequence   *)
(* of at most one element: Nil is the nil pointer, Ptr(v) points to v.     *)
(***************************************************************************)
EXTENDS Integers, Sequences, FiniteSets, TLC

VARIABLES
    client,       \* the Client: baseURL, realm, pageSize
    collection,   \* the groups the server holds, in the order it serves them
    pc,           \* "idle", "paging" (inside GetByAttribute's loop) or "done"
    call,         \* the operation in progress or just returned, with its arguments
    currentPage,  \* GetByAttribute's page counter
    requests,     \* the requests the current call has issued, in order
    resp,         \* the transport's answer to the last request (Nil: none)
    ret           \* what the call returned: [val, err]

vars == <<client, collection, pc, call, currentPage, requests, resp, ret>>

Nil == <<>>
Ptr(v) == <<v>>
Deref(p) == p[1]

\* A Go error value: the nil error, the one shared sentinel of the package,
\* an error made on the spot (errors.New, fmt.Errorf without %w), a
\* transport failure wrapped with %w, or a non-2xx response rendered with
\* %v.  Two errors are the same value only if they are equal here.
NoError == [kind |-> "nil"]
ErrGroupNotFound == [kind |-> "sentinel", msg |-> <<"group not found">>]
NewError(msg) == [kind |-> "local", msg |-> msg]
WrapTransport(prefix) == [kind |-> "transport", msg |-> prefix]
WrapRemote(prefix, r) == [kind |-> "remote", msg |-> prefix, status |-> r.status]

\* ------------------------------------------------------------------ bounds

MaxFieldLen == 1
MaxParams == 2
MaxLocationLen == 3
MaxOffset == 1
MaxGroups == 3
MaxPageSize == 2
MaxOpts == 2

\* ------------------------------------------------------- general helpers

\* All sequences over S of length at most n.
SeqsUpTo(S, n) == UNION {[1..k -> S] : k \in 0..n}

Range(f) == {f[x] : x \in DOMAIN f}

\* ----------------------------------------------- error response decoder

ErrChars == {"e", ":", " "}

ErrFieldValues == SeqsUpTo(ErrChars, MaxFieldLen)

HTTPErrorResponse == [Error : ErrFieldValues, Message : ErrFieldValues, Description : ErrFieldValues]

\* error.go:30-32
Empty(e) == Len(e.Error) <= 0 \/ Len(e.Message) <= 0 \/ Len(e.Description) <= 0

String_NoLenCheck(e) ==
    LET r1 == IF Len(e.Error) > 0 THEN e.Error ELSE <<>>
        r2 == IF Len(e.Message) > 0
              THEN r1 \o <<":", " ">> \o e.Message
              ELSE r1
        r3 == IF Len(e.Description) > 0
              THEN (IF Len(r2) > 0 THEN r2 \o <<":", " ">> ELSE r2) \o e.Description
              ELSE r2
    IN  r3

\* error.go:36-54: res is the strings.Builder after each of the three blocks.
String(e) ==
    LET r1 == IF Len(e.Error) > 0 THEN e.Error ELSE <<>>
        r2 == IF Len(e.Message) > 0
              THEN (IF Len(r1) > 0 THEN r1 \o <<":", " ">> ELSE r1) \o e.Message
              ELSE r1
        r3 == IF Len(e.Description) > 0
              THEN (IF Len(r2) > 0 THEN r2 \o <<":", " ">> ELSE r2) \o e.Description
              ELSE r2
    IN  r3

NoCall == [op |-> "none"]
NoRet == [val |-> Nil, err |-> NoError]

InitErr ==
    /\ client = [baseURL |-> <<>>, realm |-> <<>>, pageSize |-> 1]
    /\ collection = <<>>
    /\ pc = "idle"
    /\ call = NoCall
    /\ currentPage = 0
    /\ requests = <<>>
    /\ resp = Nil
    /\ ret = NoRet

CallEmpty ==
    \E e \in HTTPErrorResponse :
        /\ pc = "idle"
        /\ call' = [op |-> "Empty", e |-> e]
        /\ ret' = [val |-> Empty(e), err |-> NoError]
        /\ pc' = "done"
        /\ UNCHANGED <<client, collection, currentPage, requests, resp>>

CallString ==
    \E e \in HTTPErrorResponse :
        /\ pc = "idle"
        /\ call' = [op |-> "String", e |-> e]
        /\ ret' = [val |-> String(e), err |-> NoError]
        /\ pc' = "done"
        /\ UNCHANGED <<client, collection, currentPage, requests, resp>>

NextErr == CallEmpty \/ CallString

SpecErr == InitErr /\ [][NextErr]_vars

\* The fields of e that are present, in the order Error, Message, Description.
PresentFields(e) == SelectSeq(<<e.Error, e.Message, e.Description>>, LAMBDA f : f # <<>>)

RECURSIVE JoinWith(_, _)
JoinWith(ss, sep) ==
    IF ss = <<>> THEN <<>>
    ELSE IF Len(ss) = 1 THEN ss[1]
    ELSE ss[1] \o sep \o JoinWith(Tail(ss), sep)

\* C6: Empty() is true if and only if Error, Message and Description are all
\* empty.
C6_EmptyIffAllFieldsEmpty ==
    (pc = "done" /\ call.op = "Empty") =>
        (ret.val <=> (call.e.Error = <<>> /\ call.e.Message = <<>> /\ call.e.Description = <<>>))

\* C7: String() is the non-empty fields in the order Error, Message,
\* Description joined by ": " (the empty string when none is present).
C7_StringJoinsPresentFields ==
    (pc = "done" /\ call.op = "String") =>
        ret.val = JoinWith(PresentFields(call.e), <<":", " ">>)

\* String() has rendered a response whose Error is absent and whose Message
\* and Description are present.
C7_Witness ==
    /\ pc = "done"
    /\ call.op = "String"
    /\ call.e.Error = <<>>
    /\ call.e.Message # <<>>
    /\ call.e.Description # <<>>
    /\ ret.val = call.e.Message \o <<":", " ">> \o call.e.Description

\* ------------------------------------------------- endpoint / URL builder

\* strings.ReplaceAll(s, old, new) for a non-empty old: the non-overlapping
\* occurrences of old, found from left to right, are replaced; the text put
\* in is not scanned again.
RECURSIVE ReplaceAll(_, _, _)
ReplaceAll(s, old, new) ==
    IF Len(s) < Len(old) THEN s
    ELSE IF SubSeq(s, 1, Len(old)) = old
         THEN new \o ReplaceAll(SubSeq(s, Len(old) + 1, Len(s)), old, new)
         ELSE <<Head(s)>> \o ReplaceAll(Tail(s), old, new)

GroupsPath == <<"/admin/realms/", "{", "realm", "}", "/groups">>
GroupPath == GroupsPath \o <<"/", "{", "groupID", "}">>

endpointGroupsList == [Method |-> "GET", Path |-> GroupsPath]
endpointGroupsCreate == [Method |-> "POST", Path |-> GroupsPath]
endpointGroupsCount == [Method |-> "GET", Path |-> GroupsPath \o <<"/count">>]
endpointGroupGet == [Method |-> "GET", Path |-> GroupPath]
endpointGroupUpdate == [Method |-> "PUT", Path |-> GroupPath]
endpointGroupDelete == [Method |-> "DELETE", Path |-> GroupPath]
endpointGroupChildren == [Method |-> "GET", Path |-> GroupPath \o <<"/children">>]
endpointGroupChildCreate == [Method |-> "POST", Path |-> GroupPath \o <<"/children">>]
endpointGroupMembers == [Method |-> "GET", Path |-> GroupPath \o <<"/members">>]
endpointGroupPermsGet == [Method |-> "GET", Path |-> GroupPath \o <<"/management/permissions">>]
endpointGroupPermsUpdate == [Method |-> "PUT", Path |-> GroupPath \o <<"/management/permissions">>]

Endpoints ==
    {endpointGroupsList, endpointGroupsCreate, endpointGroupsCount, endpointGroupGet,
     endpointGroupUpdate, endpointGroupDelete, endpointGroupChildren,
     endpointGroupChildCreate, endpointGroupMembers, endpointGroupPermsGet,
     endpointGroupPermsUpdate}

\* A Go map[string]string is a function on its keys; a nil map has none.
NilMap == [k \in {} |-> <<>>]

\* The orders in which a range statement may visit the keys of a map: Go
\* leaves the order unspecified.
RangeOrders(m) ==
    {o \in [1..Cardinality(DOMAIN m) -> DOMAIN m] :
        \A i, j \in DOMAIN o : i # j => o[i] # o[j]}

replacePlaceholders_FirstKeyOnly(path, params, order) ==
    IF order = <<>> THEN path
    ELSE ReplaceAll(path, <<"{", Head(order), "}">>, params[Head(order)])

\* The loop of buildURL over params, visiting the keys in the given order.
RECURSIVE replacePlaceholders(_, _, _)
replacePlaceholders(path, params, order) ==
    IF order = <<>> THEN path
    ELSE replacePlaceholders(
             ReplaceAll(path, <<"{", Head(order), "}">>, params[Head(order)]),
             params, Tail(order))

buildURL_ParamsFirst(c, ep, params, order) ==
    c.baseURL \o ReplaceAll(replacePlaceholders(ep.Path, params, order),
                            <<"{", "realm", "}">>, c.realm)

\* Client.buildURL, with the order in which the range over params ran.
buildURL(c, ep, params, order) ==
    c.baseURL \o replacePlaceholders(ReplaceAll(ep.Path, <<"{", "realm", "}">>, c.realm),
                                     params, order)

BaseURLs == {<<"https://kc">>, <<"https://kc", "/">>}

Realms == {<<"r1">>, <<"{", "groupID", "}">>, <<"{", "realm", "}">>}

ParamKeys == {"groupID", "realm", "other"}

ParamValues == {<<>>, <<"g1">>, <<"{", "other", "}">>, <<"{", "groupID", "}">>}

ParamMaps ==
    UNION {[ks -> ParamValues] : ks \in {x \in SUBSET ParamKeys : Cardinality(x) <= MaxParams}}

InitURL ==
    /\ client \in [baseURL : BaseURLs, realm : Realms, pageSize : {1}]
    /\ collection = <<>>
    /\ pc = "idle"
    /\ call = NoCall
    /\ currentPage = 0
    /\ requests = <<>>
    /\ resp = Nil
    /\ ret = NoRet

CallBuildURL ==
    \E ep \in Endpoints, params \in ParamMaps :
        \E order \in RangeOrders(params) :
            /\ pc = "idle"
            /\ call' = [op |-> "buildURL", ep |-> ep, params |-> params, order |-> order]
            /\ ret' = [val |-> buildURL(client, ep, params, order), err |-> NoError]
            /\ pc' = "done"
            /\ UNCHANGED <<client, collection, currentPage, requests, resp>>

NextURL == CallBuildURL

SpecURL == InitURL /\ [][NextURL]_vars

\* The template with every placeholder replaced at once: {realm} by the
\* configured realm, {key} by the map's value for key, any other placeholder
\* kept as it stands.
RECURSIVE Substituted(_, _, _)
Substituted(path, realm, params) ==
    IF path = <<>> THEN <<>>
    ELSE IF /\ Len(path) >= 3
            /\ path[1] = "{"
            /\ path[3] = "}"
            /\ (path[2] = "realm" \/ path[2] \in DOMAIN params)
         THEN (IF path[2] = "realm" THEN realm ELSE params[path[2]])
                  \o Substituted(SubSeq(path, 4, Len(path)), realm, params)
         ELSE <<Head(path)>> \o Substituted(Tail(path), realm, params)

\* s holds the placeholder {key}.
HasToken(s, key) == \E i \in 1..(Len(s) - 2) : SubSeq(s, i, i + 2) = <<"{", key, "}">>

\* Neither the realm nor a map value brings in a placeholder that a later
\* substitution of buildURL would replace.
NoInjectedToken(realm, params) ==
    /\ \A k \in DOMAIN params : ~HasToken(realm, k)
    /\ \A k, k2 \in DOMAIN params : k # k2 => ~HasToken(params[k], k2)

\* C9, as stated: buildURL returns baseURL followed by the endpoint path with
\* {realm} replaced by the configured realm and every other placeholder
\* replaced by the map's value for its key, placeholders without an entry
\* kept.
C9_BuildURLSubstitutes ==
    (pc = "done" /\ call.op = "buildURL") =>
        ret.val = client.baseURL \o Substituted(call.ep.Path, client.realm, call.params)

\* C9, amended: the same, provided the realm holds no {key} token for a key
\* of the map and no map value holds a {key} token for another key of the
\* map.
C9_BuildURLSubstitutesNoToken ==
    (pc = "done" /\ call.op = "buildURL" /\ NoInjectedToken(client.realm, call.params)) =>
        ret.val = client.baseURL \o Substituted(call.ep.Path, client.realm, call.params)

\* buildURL has built the children URL for realm r1 and group g1.
C9_Witness ==
    /\ pc = "done"
    /\ call.op = "buildURL"
    /\ client.realm = <<"r1">>
    /\ call.ep = endpointGroupChildren
    /\ call.params = [k \in {"groupID"} |-> <<"g1">>]
    /\ NoInjectedToken(client.realm, call.params)
    /\ ret.val = client.baseURL \o <<"/admin/realms/", "r1", "/groups", "/", "g1", "/children">>

\* ------------------------------------------------------------ transport

Statuses == {200, 201, 204, 301, 401, 404, 500}

\* resty's Response.IsSuccess: 199 < status < 300.
IsSuccess(r) == r.status > 199 /\ r.status < 300

\* What Execute can come back with: a transport failure, or a response with
\* a status, headers and a pointer to the decoded body of a 2xx answer.
TransportFailure == [kind |-> "failure"]
HTTPResponse(status, header, body) ==
    [kind |-> "http", status |-> status, header |-> header, body |-> body]

NoHeader == [k \in {} |-> <<>>]
LocationHeader(v) == [k \in {"Location"} |-> v]

\* http.Header.Get: the empty string for a header that is not there.
HeaderGet(h, name) == IF name \in DOMAIN h THEN h[name] ELSE <<>>

NoQuery == [k \in {} |-> <<>>]

Request(ep, url, query, body) ==
    [method |-> ep.Method, url |-> url, query |-> query, body |-> body]

\* What one call comes to: the requests it issued, the last answer it got
\* and what it returned.
Outcome(reqs, r, val, err) ==
    [requests |-> reqs, resp |-> r, ret |-> [val |-> val, err |-> err]]

\* A call that returns before it issues a request.
Local(val, err) == Outcome(<<>>, Nil, val, err)

\* --------------------------------------------------------------- getID

pathBase_TrailingSlashKept(p) ==
    IF p = <<>> THEN <<".">>
    ELSE LET slashes == {i \in 1..Len(p) : p[i] = "/"}
             last == IF slashes = {} THEN p
                     ELSE SubSeq(p, (CHOOSE i \in slashes : \A j \in slashes : j <= i) + 1, Len(p))
         IN  IF last = <<>> THEN <<"/">> ELSE last

\* path.Base
pathBase(p) ==
    IF p = <<>> THEN <<".">>
    ELSE LET stripped == IF \A i \in 1..Len(p) : p[i] = "/" THEN <<>>
                         ELSE SubSeq(p, 1, CHOOSE n \in 1..Len(p) :
                                               /\ p[n] # "/"
                                               /\ \A j \in (n + 1)..Len(p) : p[j] = "/")
             slashes == {i \in 1..Len(stripped) : stripped[i] = "/"}
             last == IF slashes = {} THEN stripped
                     ELSE SubSeq(stripped,
                                 (CHOOSE i \in slashes : \A j \in slashes : j <= i) + 1,
                                 Len(stripped))
         IN  IF last = <<>> THEN <<"/">> ELSE last

getID_NoEmptyCheck(r) == pathBase(HeaderGet(r.header, "Location"))

\* group.go:481-487
getID(r) ==
    LET header == HeaderGet(r.header, "Location")
    IN  IF header = <<>> THEN <<>> ELSE pathBase(header)

\* ----------------------------------------- query parameter projector

Digits == <<"0", "1", "2", "3", "4", "5", "6", "7", "8", "9">>

\* strconv's decimal form of an int.
RECURSIVE Itoa(_)
Itoa(n) ==
    IF n < 0 THEN <<"-">> \o Itoa(-n)
    ELSE IF n < 10 THEN <<Digits[n + 1]>>
    ELSE Itoa(n \div 10) \o <<Digits[(n % 10) + 1]>>

FormatBool(b) == IF b THEN <<"true">> ELSE <<"false">>

\* The json tags of the parameter records (group_model.go): the Go field,
\* its wire name, its Go type and whether the tag carries ",string".  Every
\* field is a pointer tagged omitempty.
Tag(field, json, type, quoted) ==
    [field |-> field, json |-> json, type |-> type, quoted |-> quoted]

SearchGroupParamsTags ==
    {Tag("BriefRepresentation", "briefRepresentation", "bool", TRUE),
     Tag("PopulateHierarchy", "populateHierarchy", "bool", TRUE),
     Tag("Exact", "exact", "bool", TRUE),
     Tag("First", "first", "int", TRUE),
     Tag("Full", "full", "bool", TRUE),
     Tag("Max", "max", "int", TRUE),
     Tag("Q", "q", "string", FALSE),
     Tag("Search", "search", "string", FALSE),
     Tag("SubGroupsCount", "subGroupsCount", "bool", TRUE)}

CountGroupParamsTags ==
    {Tag("Search", "search", "string", FALSE),
     Tag("Top", "top", "bool", FALSE)}

SubGroupSearchParamsTags ==
    {Tag("BriefRepresentation", "briefRepresentation", "bool", TRUE),
     Tag("Exact", "exact", "bool", TRUE),
     Tag("First", "first", "int", TRUE),
     Tag("Max", "max", "int", TRUE),
     Tag("Search", "search", "string", FALSE),
     Tag("SubGroupsCount", "subGroupsCount", "bool", TRUE)}

GroupMembersParamsTags ==
    {Tag("BriefRepresentation", "briefRepresentation", "bool", TRUE),
     Tag("First", "first", "int", TRUE),
     Tag("Max", "max", "int", TRUE)}

\* A record of the given tags with every field nil.
ZeroParams(tags) == [f \in {t.field : t \in tags} |-> Nil]

\* json.Marshal of one field: a JSON string for a string and for a value
\* tagged ",string", a JSON boolean or number otherwise.
jsonMarshalField(t, v) ==
    IF t.type = "string" THEN [json |-> "string", v |-> v]
    ELSE IF t.quoted
         THEN [json |-> "string", v |-> IF t.type = "bool" THEN FormatBool(v) ELSE Itoa(v)]
    ELSE IF t.type = "bool" THEN [json |-> "bool", v |-> v]
    ELSE [json |-> "number", v |-> v]

\* fmt.Sprintf("%v", elem) of a value json.Unmarshal put in a
\* map[string]interface{}: a string as it is, a bool as true or false, a
\* number (a float64 holding a small integer) in decimal.
sprintV(j) ==
    IF j.json = "string" THEN j.v
    ELSE IF j.json = "bool" THEN FormatBool(j.v)
    ELSE Itoa(j.v)

mapper_QuotesKept(tags, s) ==
    LET kept == {t \in tags : s[t.field] # Nil}
        tagOf(k) == CHOOSE t \in kept : t.json = k
        marshalled(k) == jsonMarshalField(tagOf(k), Deref(s[tagOf(k).field]))
    IN  [k \in {t.json : t \in kept} |->
            IF tagOf(k).quoted
            THEN <<"\"">> \o sprintV(marshalled(k)) \o <<"\"">>
            ELSE sprintV(marshalled(k))]

\* json.Marshal has no encoding for a channel or a function: a struct with
\* such a field is refused whatever the field holds, a nil channel not being
\* an empty value for omitempty.
Unsupported(tags) == \E t \in tags : t.type \in {"chan", "func"}

UnsupportedTypeError == [kind |-> "marshal", msg |-> <<"json: unsupported type">>]

\* util.go:79-95, for a record s of pointer fields with the given tags:
\* omitempty drops exactly the nil pointers.  The map returned; nil when
\* json.Marshal fails.
mapper(tags, s) ==
    IF Unsupported(tags) THEN NilMap
    ELSE LET kept == {t \in tags : s[t.field] # Nil}
             tagOf(k) == CHOOSE t \in kept : t.json = k
         IN  [k \in {t.json : t \in kept} |->
                sprintV(jsonMarshalField(tagOf(k), Deref(s[tagOf(k).field])))]

mapperErr_FuncAccepted(tags, s) ==
    IF \E t \in tags : t.type = "chan" THEN UnsupportedTypeError ELSE NoError

\* util.go:80-83: the error returned beside the map.
mapperErr(tags, s) == IF Unsupported(tags) THEN UnsupportedTypeError ELSE NoError

\* ------------------------------------------------------------- groups

\* group_model.go:21-33; every field is a pointer.
ZeroGroup ==
    [ID |-> Nil, Name |-> Nil, Description |-> Nil, Path |-> Nil, ParentID |-> Nil,
     SubGroupCount |-> Nil, SubGroups |-> Nil, Attributes |-> Nil, Access |-> Nil,
     ClientRoles |-> Nil, RealmRoles |-> Nil]

\* group_model.go:37-40
GroupAttribute(key, value) == [Key |-> key, Value |-> value]

\* ptr.IsZero of a *string: nil, or pointing to the empty string.
IsZero(p) == p = Nil \/ Deref(p) = <<>>

findGroupByAttribute_AnyValue(groups, attribute) ==
    LET hit(g) == /\ g # Nil
                  /\ Deref(g).Attributes # Nil
                  /\ attribute.Key \in DOMAIN Deref(Deref(g).Attributes)
                  /\ \E i \in DOMAIN Deref(Deref(g).Attributes)[attribute.Key] :
                        Deref(Deref(g).Attributes)[attribute.Key][i] = attribute.Value
        hits == {i \in DOMAIN groups : hit(groups[i])}
    IN  IF hits = {} THEN [group |-> Nil, ok |-> FALSE]
        ELSE [group |-> groups[CHOOSE i \in hits : \A j \in hits : i <= j], ok |-> TRUE]

\* group.go:458-477
RECURSIVE findGroupByAttribute(_, _)
findGroupByAttribute(groups, attribute) ==
    IF groups = <<>> THEN [group |-> Nil, ok |-> FALSE]
    ELSE LET group == Head(groups)
         IN  IF group = Nil \/ Deref(group).Attributes = Nil
             THEN findGroupByAttribute(Tail(groups), attribute)
             ELSE LET groupAttributes == Deref(Deref(group).Attributes)
                  IN  IF attribute.Key \in DOMAIN groupAttributes
                      THEN LET value == groupAttributes[attribute.Key]
                           IN  IF Len(value) # 1 THEN [group |-> Nil, ok |-> FALSE]
                               ELSE IF value[1] = attribute.Value
                                    THEN [group |-> group, ok |-> TRUE]
                                    ELSE findGroupByAttribute(Tail(groups), attribute)
                      ELSE findGroupByAttribute(Tail(groups), attribute)

\* group_model.go:90-94
ZeroRef == [Enabled |-> Nil, Resource |-> Nil, ScopePermissions |-> Nil]

\* ---------------------------------------------------------- operations
\* Each operation is given the client c, its arguments and the answer r the
\* transport has for the one request it may issue.

Exchange_RetryOnFailure(req, r, prefix, zero, success) ==
    IF r.kind = "failure" THEN Outcome(<<req, req>>, Ptr(r), zero, WrapTransport(prefix))
    ELSE IF ~IsSuccess(r) THEN Outcome(<<req>>, Ptr(r), zero, WrapRemote(prefix, r))
    ELSE Outcome(<<req>>, Ptr(r), success, NoError)

Exchange_PrefixDropped(req, r, prefix, zero, success) ==
    IF r.kind = "failure" THEN Outcome(<<req>>, Ptr(r), zero, WrapTransport(prefix))
    ELSE IF ~IsSuccess(r) THEN Outcome(<<req>>, Ptr(r), zero, WrapRemote(<<>>, r))
    ELSE Outcome(<<req>>, Ptr(r), success, NoError)

Exchange_FailureAsNotFound(req, r, prefix, zero, success) ==
    IF r.kind = "failure" THEN Outcome(<<req>>, Ptr(r), zero, ErrGroupNotFound)
    ELSE IF ~IsSuccess(r) THEN Outcome(<<req>>, Ptr(r), zero, WrapRemote(prefix, r))
    ELSE Outcome(<<req>>, Ptr(r), success, NoError)

\* The block every operation ends with: a transport failure and a non-2xx
\* status both return the zero result with an error carrying the
\* operation's prefix (group.go:128-135 and its copies).
Exchange(req, r, prefix, zero, success) ==
    IF r.kind = "failure" THEN Outcome(<<req>>, Ptr(r), zero, WrapTransport(prefix))
    ELSE IF ~IsSuccess(r) THEN Outcome(<<req>>, Ptr(r), zero, WrapRemote(prefix, r))
    ELSE Outcome(<<req>>, Ptr(r), success, NoError)

GroupIDParams(groupID) == [k \in {"groupID"} |-> groupID]

URLOf(c, ep) == buildURL(c, ep, NilMap, <<>>)
GroupURLOf(c, ep, groupID) == buildURL(c, ep, GroupIDParams(groupID), <<"groupID">>)

\* group.go:119-136
CreateRequest(c, name, attributes) ==
    Request(endpointGroupsCreate, URLOf(c, endpointGroupsCreate), NoQuery,
            Ptr([ZeroGroup EXCEPT !.Name = Ptr(name), !.Attributes = Ptr(attributes)]))

Create(c, name, attributes, r) ==
    Exchange(CreateRequest(c, name, attributes), r, <<"unable to create group">>,
             <<>>, getID(r))

UpdateRequest_SubGroupsDropped(c, group) ==
    Request(endpointGroupUpdate, GroupURLOf(c, endpointGroupUpdate, Deref(group.ID)),
            NoQuery, Ptr([group EXCEPT !.SubGroups = Nil]))

\* group.go:140-156
UpdateRequest(c, group) ==
    Request(endpointGroupUpdate, GroupURLOf(c, endpointGroupUpdate, Deref(group.ID)),
            NoQuery, Ptr(group))

Update(c, group, r) ==
    IF IsZero(group.ID)
    THEN Local(Nil, NewError(<<"the ID of the group is required">>))
    ELSE Exchange(UpdateRequest(c, group), r, <<"unable to update group">>, Nil, Nil)

\* group.go:208-229
listRequest(c, params) ==
    Request(endpointGroupsList, URLOf(c, endpointGroupsList),
            mapper(SearchGroupParamsTags, params), Nil)

list(c, params, r) ==
    Exchange(listRequest(c, params), r, <<"unable to list groups">>, Nil, Deref(r.body))

\* group.go:159-164
ListParams(search, briefRepresentation) ==
    [ZeroParams(SearchGroupParamsTags) EXCEPT
        !.Search = search, !.BriefRepresentation = Ptr(briefRepresentation)]

List(c, search, briefRepresentation, r) ==
    list(c, ListParams(search, briefRepresentation), r)

ListPaginatedParams_FirstMaxSwapped(search, briefRepresentation, first, max) ==
    [ZeroParams(SearchGroupParamsTags) EXCEPT
        !.Search = search, !.BriefRepresentation = Ptr(briefRepresentation),
        !.First = Ptr(max), !.Max = Ptr(first)]

\* group.go:167-174
ListPaginatedParams(search, briefRepresentation, first, max) ==
    [ZeroParams(SearchGroupParamsTags) EXCEPT
        !.Search = search, !.BriefRepresentation = Ptr(briefRepresentation),
        !.First = Ptr(first), !.Max = Ptr(max)]

ListPaginated(c, search, briefRepresentation, first, max, r) ==
    list(c, ListPaginatedParams(search, briefRepresentation, first, max), r)

\* group.go:177-179
ListWithParams(c, params, r) == list(c, params, r)

ListWithSubGroupsParams_OmitEmptySearch(searchQuery, briefRepresentation, first, max) ==
    [ZeroParams(SearchGroupParamsTags) EXCEPT
        !.Search = IF searchQuery = <<>> THEN Nil ELSE Ptr(searchQuery),
        !.BriefRepresentation = Ptr(briefRepresentation),
        !.PopulateHierarchy = Ptr(TRUE),
        !.First = Ptr(first), !.Max = Ptr(max)]

\* group.go:196-205
ListWithSubGroupsParams(searchQuery, briefRepresentation, first, max) ==
    [ZeroParams(SearchGroupParamsTags) EXCEPT
        !.Search = Ptr(searchQuery),
        !.BriefRepresentation = Ptr(briefRepresentation),
        !.PopulateHierarchy = Ptr(TRUE),
        !.First = Ptr(first), !.Max = Ptr(max)]

ListWithSubGroups(c, searchQuery, briefRepresentation, first, max, r) ==
    list(c, ListWithSubGroupsParams(searchQuery, briefRepresentation, first, max), r)

\* group.go:232-256
CountRequest(c, search, top) ==
    Request(endpointGroupsCount, URLOf(c, endpointGroupsCount),
            mapper(CountGroupParamsTags, [Search |-> search, Top |-> top]), Nil)

Count(c, search, top, r) ==
    Exchange(CountRequest(c, search, top), r, <<"unable to count groups">>, 0, Deref(r.body))

\* group.go:259-282
GetRequest(c, groupID) ==
    Request(endpointGroupGet, GroupURLOf(c, endpointGroupGet, groupID), NoQuery, Nil)

Get_No404(c, groupID, r) ==
    IF groupID = <<>>
    THEN Local(Nil, NewError(<<"groupID parameter cannot be empty">>))
    ELSE Exchange(GetRequest(c, groupID), r, <<"unable to get group">>, Nil, Ptr(Deref(r.body)))

Get(c, groupID, r) ==
    IF groupID = <<>>
    THEN Local(Nil, NewError(<<"groupID parameter cannot be empty">>))
    ELSE LET req == GetRequest(c, groupID)
         IN  IF r.kind = "failure"
             THEN Outcome(<<req>>, Ptr(r), Nil, WrapTransport(<<"unable to get group">>))
             ELSE IF ~IsSuccess(r)
                  THEN IF r.status = 404
                       THEN Outcome(<<req>>, Ptr(r), Nil, ErrGroupNotFound)
                       ELSE Outcome(<<req>>, Ptr(r), Nil,
                                    WrapRemote(<<"unable to get group">>, r))
                  ELSE Outcome(<<req>>, Ptr(r), Ptr(Deref(r.body)), NoError)

GetSubGroupByID_Nested(group, subGroupID) ==
    IF group.SubGroups = Nil THEN Local(Nil, ErrGroupNotFound)
    ELSE LET subGroups == Deref(group.SubGroups)
             hasID(g) == g # Nil /\ Deref(g).ID # Nil /\ Deref(Deref(g).ID) = subGroupID
             children(g) == IF g = Nil \/ Deref(g).SubGroups = Nil THEN <<>>
                            ELSE Deref(Deref(g).SubGroups)
             nested == {c \in UNION {Range(children(subGroups[i])) : i \in DOMAIN subGroups} :
                            hasID(c)}
             hits == {i \in DOMAIN subGroups : hasID(subGroups[i])}
         IN  IF hits # {}
             THEN Local(subGroups[CHOOSE i \in hits : \A j \in hits : i <= j], NoError)
             ELSE IF nested # {} THEN Local(CHOOSE c \in nested : TRUE, NoError)
             ELSE Local(Nil, ErrGroupNotFound)

\* group.go:326-338
GetSubGroupByID(group, subGroupID) ==
    IF group.SubGroups = Nil THEN Local(Nil, ErrGroupNotFound)
    ELSE LET subGroups == Deref(group.SubGroups)
             hits == {i \in DOMAIN subGroups :
                        /\ subGroups[i] # Nil
                        /\ Deref(subGroups[i]).ID # Nil
                        /\ Deref(Deref(subGroups[i]).ID) = subGroupID}
         IN  IF hits = {} THEN Local(Nil, ErrGroupNotFound)
             ELSE Local(subGroups[CHOOSE i \in hits : \A j \in hits : i <= j], NoError)

\* group.go:343-364
CreateSubGroupRequest(c, groupID, name, attributes) ==
    Request(endpointGroupChildCreate, GroupURLOf(c, endpointGroupChildCreate, groupID),
            NoQuery,
            Ptr([ZeroGroup EXCEPT !.Name = Ptr(name), !.Attributes = Ptr(attributes)]))

CreateSubGroup(c, groupID, name, attributes, r) ==
    IF groupID = <<>>
    THEN Local(<<>>, NewError(<<"groupID parameter cannot be empty">>))
    ELSE Exchange(CreateSubGroupRequest(c, groupID, name, attributes), r,
                  <<"unable to create sub-group">>, <<>>, getID(r))

\* group.go:367-385
ListSubGroupsRequest(c, groupID) ==
    Request(endpointGroupChildren, GroupURLOf(c, endpointGroupChildren, groupID),
            NoQuery, Nil)

ListSubGroups(c, groupID, r) ==
    IF groupID = <<>>
    THEN Local(Nil, NewError(<<"groupID parameter cannot be empty">>))
    ELSE Exchange(ListSubGroupsRequest(c, groupID), r, <<"unable to list groups">>,
                  Nil, Deref(r.body))

\* group.go:390-415
ListSubGroupsPaginatedRequest(c, groupID, params) ==
    Request(endpointGroupChildren, GroupURLOf(c, endpointGroupChildren, groupID),
            mapper(SubGroupSearchParamsTags, params), Nil)

ListSubGroupsPaginated(c, groupID, params, r) ==
    IF groupID = <<>>
    THEN Local(Nil, NewError(<<"groupID parameter cannot be empty">>))
    ELSE Exchange(ListSubGroupsPaginatedRequest(c, groupID, params), r,
                  <<"unable to list sub-groups">>, Nil, Deref(r.body))

\* group.go:418-429
GetSubGroupByAttribute(group, attribute) ==
    IF group.SubGroups = Nil THEN Local(Nil, ErrGroupNotFound)
    ELSE LET found == findGroupByAttribute(Deref(group.SubGroups), attribute)
         IN  IF ~found.ok THEN Local(Nil, ErrGroupNotFound)
             ELSE Local(found.group, NoError)

\* group.go:432-448
DeleteRequest(c, groupID) ==
    Request(endpointGroupDelete, GroupURLOf(c, endpointGroupDelete, groupID), NoQuery, Nil)

Delete_NoValidation(c, groupID, r) ==
    Exchange(DeleteRequest(c, groupID), r, <<"unable to delete group">>, Nil, Nil)

Delete(c, groupID, r) ==
    IF groupID = <<>>
    THEN Local(Nil, NewError(<<"groupID parameter cannot be empty">>))
    ELSE Exchange(DeleteRequest(c, groupID), r, <<"unable to delete group">>, Nil, Nil)

\* group.go:490-515
ListMembersRequest(c, groupID, params) ==
    Request(endpointGroupMembers, GroupURLOf(c, endpointGroupMembers, groupID),
            mapper(GroupMembersParamsTags, params), Nil)

ListMembers(c, groupID, params, r) ==
    IF groupID = <<>>
    THEN Local(Nil, NewError(<<"groupID parameter cannot be empty">>))
    ELSE Exchange(ListMembersRequest(c, groupID, params), r,
                  <<"unable to list group members">>, Nil, Deref(r.body))

\* group.go:518-537
GetManagementPermissionsRequest(c, groupID) ==
    Request(endpointGroupPermsGet, GroupURLOf(c, endpointGroupPermsGet, groupID),
            NoQuery, Nil)

GetManagementPermissions(c, groupID, r) ==
    IF groupID = <<>>
    THEN Local(Nil, NewError(<<"groupID parameter cannot be empty">>))
    ELSE Exchange(GetManagementPermissionsRequest(c, groupID), r,
                  <<"unable to get management permissions">>, Nil, Ptr(Deref(r.body)))

\* group.go:540-560
UpdateManagementPermissionsRequest(c, groupID, ref) ==
    Request(endpointGroupPermsUpdate, GroupURLOf(c, endpointGroupPermsUpdate, groupID),
            NoQuery, Ptr(ref))

UpdateManagementPermissions(c, groupID, ref, r) ==
    IF groupID = <<>>
    THEN Local(Nil, NewError(<<"groupID parameter cannot be empty">>))
    ELSE Exchange(UpdateManagementPermissionsRequest(c, groupID, ref), r,
                  <<"unable to update management permissions">>, Nil, Ptr(Deref(r.body)))

GetByAttributePass_StopOnEmpty(c, attribute, page, r) ==
    LET fetched == ListPaginated(c, Nil, FALSE, page * c.pageSize, c.pageSize, r)
        groups == fetched.ret.val
        found == findGroupByAttribute(groups, Deref(attribute))
    IN  IF fetched.ret.err # NoError
        THEN [next |-> FALSE, out |-> Outcome(fetched.requests, fetched.resp, Nil, fetched.ret.err)]
        ELSE IF found.ok
        THEN [next |-> FALSE, out |-> Outcome(fetched.requests, fetched.resp, found.group, NoError)]
        ELSE IF Len(groups) = 0
        THEN [next |-> FALSE, out |-> Outcome(fetched.requests, fetched.resp, Nil, ErrGroupNotFound)]
        ELSE [next |-> TRUE, out |-> Outcome(fetched.requests, fetched.resp, Nil, NoError)]

GetByAttributePass_OffsetIsPage(c, attribute, page, r) ==
    LET fetched == ListPaginated(c, Nil, FALSE, page, c.pageSize, r)
        groups == fetched.ret.val
        found == findGroupByAttribute(groups, Deref(attribute))
    IN  IF fetched.ret.err # NoError
        THEN [next |-> FALSE, out |-> Outcome(fetched.requests, fetched.resp, Nil, fetched.ret.err)]
        ELSE IF found.ok
        THEN [next |-> FALSE, out |-> Outcome(fetched.requests, fetched.resp, found.group, NoError)]
        ELSE IF Len(groups) < c.pageSize
        THEN [next |-> FALSE, out |-> Outcome(fetched.requests, fetched.resp, Nil, ErrGroupNotFound)]
        ELSE [next |-> TRUE, out |-> Outcome(fetched.requests, fetched.resp, Nil, NoError)]

GetByAttributePass_OnePageOnly(c, attribute, page, r) ==
    LET fetched == ListPaginated(c, Nil, FALSE, page * c.pageSize, c.pageSize, r)
        groups == fetched.ret.val
        found == findGroupByAttribute(groups, Deref(attribute))
    IN  IF fetched.ret.err # NoError
        THEN [next |-> FALSE, out |-> Outcome(fetched.requests, fetched.resp, Nil, fetched.ret.err)]
        ELSE IF found.ok
        THEN [next |-> FALSE, out |-> Outcome(fetched.requests, fetched.resp, found.group, NoError)]
        ELSE [next |-> FALSE, out |-> Outcome(fetched.requests, fetched.resp, Nil, ErrGroupNotFound)]

\* One pass of the loop of GetByAttribute (group.go:305-322) at page
\* currentPage, given the answer r to its page fetch: what the fetch came
\* to, and whether the loop goes on ("next") or returns.
GetByAttributePass(c, attribute, page, r) ==
    LET fetched == ListPaginated(c, Nil, FALSE, page * c.pageSize, c.pageSize, r)
        groups == fetched.ret.val
        found == findGroupByAttribute(groups, Deref(attribute))
    IN  IF fetched.ret.err # NoError
        THEN [next |-> FALSE, out |-> Outcome(fetched.requests, fetched.resp, Nil, fetched.ret.err)]
        ELSE IF found.ok
        THEN [next |-> FALSE, out |-> Outcome(fetched.requests, fetched.resp, found.group, NoError)]
        ELSE IF Len(groups) < c.pageSize
        THEN [next |-> FALSE, out |-> Outcome(fetched.requests, fetched.resp, Nil, ErrGroupNotFound)]
        ELSE [next |-> TRUE, out |-> Outcome(fetched.requests, fetched.resp, Nil, NoError)]

\* ---------------------------------------------------- the identity server

\* client.go:30
defaultSize == 50

DigitValue(d) == (CHOOSE i \in DOMAIN Digits : Digits[i] = d) - 1

\* The server's reading of a decimal query parameter.
RECURSIVE Atoi(_)
Atoi(s) ==
    IF Len(s) = 1 THEN DigitValue(s[1])
    ELSE 10 * Atoi(SubSeq(s, 1, Len(s) - 1)) + DigitValue(s[Len(s)])

\* A group of the collection: its kind says what its attributes hold under
\* the key customID.
GroupKinds == {"nil", "noattrs", "otherkey", "none", "v", "w", "vw"}

AttributesOf(kind) ==
    CASE kind = "noattrs" -> Nil
      [] kind = "otherkey" -> Ptr([k \in {"other"} |-> << <<"v">> >>])
      [] kind = "none" -> Ptr([k \in {"customID"} |-> <<>>])
      [] kind = "v" -> Ptr([k \in {"customID"} |-> << <<"v">> >>])
      [] kind = "w" -> Ptr([k \in {"customID"} |-> << <<"w">> >>])
      [] kind = "vw" -> Ptr([k \in {"customID", "other"} |-> << <<"v">>, <<"w">> >>])

MakeGroup(kind, i) ==
    IF kind = "nil" THEN Nil
    ELSE Ptr([ZeroGroup EXCEPT !.ID = Ptr(<<"g">> \o Itoa(i)),
                               !.Attributes = AttributesOf(kind)])

MakeCollection(kinds) == [i \in DOMAIN kinds |-> MakeGroup(kinds[i], i)]

Collections == {MakeCollection(kinds) : kinds \in SeqsUpTo(GroupKinds, MaxGroups)}

SampleCollection == MakeCollection(<<"vw", "w", "v">>)

Min(a, b) == IF a < b THEN a ELSE b

\* The page of the collection a list request asks for: max groups from
\* offset first on, the whole collection without them.
ServePage(query) ==
    LET first == IF "first" \in DOMAIN query THEN Atoi(query["first"]) ELSE 0
        max == IF "max" \in DOMAIN query THEN Atoi(query["max"]) ELSE Len(collection)
    IN  SubSeq(collection, first + 1, Min(first + max, Len(collection)))

LocationChars == {"/", "a", "b"}

Locations == SeqsUpTo(LocationChars, MaxLocationLen)

SampleUsers == {<<>>, <<Ptr([ID |-> Ptr(<<"u1">>), Username |-> Ptr(<<"alice">>)])>>}

SampleRefs == {ZeroRef, [ZeroRef EXCEPT !.Enabled = Ptr(TRUE)]}

\* The bodies a 2xx answer to a request of the endpoint may carry.
BodiesFor(ep, req) ==
    CASE ep = endpointGroupsList -> {ServePage(req.query)}
      [] ep = endpointGroupsCount -> {0, Len(collection)}
      [] ep = endpointGroupGet -> {ZeroGroup} \cup {Deref(g) : g \in {x \in Range(collection) : x # Nil}}
      [] ep = endpointGroupChildren -> {<<>>, collection}
      [] ep = endpointGroupMembers -> SampleUsers
      [] ep \in {endpointGroupPermsGet, endpointGroupPermsUpdate} -> SampleRefs
      [] OTHER -> {Nil}

HeadersFor(ep) ==
    IF ep \in {endpointGroupsCreate, endpointGroupChildCreate}
    THEN {NoHeader} \cup {LocationHeader(v) : v \in Locations}
    ELSE {NoHeader}

\* Everything the transport may come back with for a request: a failure
\* (network error, timeout, cancelled context) or a response of any status.
ServerAnswers(ep, req) ==
    {TransportFailure} \cup
    {HTTPResponse(status, header, IF status > 199 /\ status < 300 THEN Ptr(body) ELSE Nil) :
        status \in Statuses, header \in HeadersFor(ep), body \in BodiesFor(ep, req)}

\* -------------------------------------------------------------- arguments

GroupIDs == {<<>>, <<"g1">>}
Names == {<<>>, <<"n">>}
AttributeMaps == {NilMap, [k \in {"customID"} |-> << <<"v">> >>]}
Searches == {Nil, Ptr(<<>>), Ptr(<<"parent">>)}
SearchQueries == {<<>>, <<"parent">>}
Offsets == 0..MaxOffset
PageSizes == 1..MaxPageSize

SearchedAttribute == GroupAttribute("customID", <<"v">>)

UpdatedGroups ==
    {ZeroGroup,
     [ZeroGroup EXCEPT !.ID = Ptr(<<>>), !.Name = Ptr(<<"n">>)],
     [ZeroGroup EXCEPT !.ID = Ptr(<<"g1">>), !.Name = Ptr(<<"n">>)],
     [ZeroGroup EXCEPT !.ID = Ptr(<<"g1">>), !.SubGroups = Ptr(SampleCollection)]}

SubGroupIDs == {<<>>, <<"g1">>, <<"g3">>}

\* A sub-group that has a sub-group of its own.
NestedSubGroups ==
    <<Ptr([ZeroGroup EXCEPT
            !.ID = Ptr(<<"g9">>),
            !.SubGroups = Ptr(<<Ptr([ZeroGroup EXCEPT !.ID = Ptr(<<"g3">>)])>>)])>>

SubGroupLists ==
    {Nil, Ptr(<<>>), Ptr(SampleCollection), Ptr(NestedSubGroups),
     Ptr(<<Nil, Ptr(ZeroGroup), Ptr([ZeroGroup EXCEPT !.ID = Ptr(<<>>)]),
           Ptr([ZeroGroup EXCEPT !.ID = Ptr(<<"g3">>)])>>)}

ParentGroups == {[ZeroGroup EXCEPT !.ID = Ptr(<<"p">>), !.SubGroups = subs] : subs \in SubGroupLists}

SearchGroupParamsSamples ==
    {ZeroParams(SearchGroupParamsTags),
     [ZeroParams(SearchGroupParamsTags) EXCEPT !.Exact = Ptr(TRUE), !.Q = Ptr(<<"k:v">>)],
     [ZeroParams(SearchGroupParamsTags) EXCEPT !.Full = Ptr(FALSE), !.SubGroupsCount = Ptr(TRUE)]}
        \cup {ListParams(search, brief) : search \in Searches, brief \in BOOLEAN}
        \cup {ListPaginatedParams(Ptr(<<"parent">>), FALSE, first, max) : first \in Offsets, max \in Offsets}

SubGroupSearchParamsSamples ==
    {ZeroParams(SubGroupSearchParamsTags),
     [ZeroParams(SubGroupSearchParamsTags) EXCEPT !.First = Ptr(0), !.Max = Ptr(10)],
     [ZeroParams(SubGroupSearchParamsTags) EXCEPT !.Search = Ptr(<<"parent">>), !.Exact = Ptr(FALSE)]}

GroupMembersParamsSamples ==
    {ZeroParams(GroupMembersParamsTags),
     [ZeroParams(GroupMembersParamsTags) EXCEPT !.BriefRepresentation = Ptr(TRUE)],
     [ZeroParams(GroupMembersParamsTags) EXCEPT !.First = Ptr(0), !.Max = Ptr(100)]}

\* ------------------------------------------------------------- actions

\* A call returns: what it came to becomes visible.
Finish(c, out) ==
    /\ pc' = "done"
    /\ call' = c
    /\ requests' = requests \o out.requests
    /\ resp' = out.resp
    /\ ret' = out.ret
    /\ UNCHANGED <<client, collection, currentPage>>

CallCreate ==
    /\ pc = "idle"
    /\ \E name \in Names, attributes \in AttributeMaps :
        \E r \in ServerAnswers(endpointGroupsCreate, CreateRequest(client, name, attributes)) :
            Finish([op |-> "Create", name |-> name, attributes |-> attributes],
                   Create(client, name, attributes, r))

CallUpdate ==
    /\ pc = "idle"
    /\ \E group \in UpdatedGroups :
        \E r \in ServerAnswers(endpointGroupUpdate, Nil) :
            Finish([op |-> "Update", group |-> group], Update(client, group, r))

CallDelete ==
    /\ pc = "idle"
    /\ \E groupID \in GroupIDs :
        \E r \in ServerAnswers(endpointGroupDelete, Nil) :
            Finish([op |-> "Delete", groupID |-> groupID], Delete(client, groupID, r))

CallList ==
    /\ pc = "idle"
    /\ \E search \in Searches, brief \in BOOLEAN :
        \E r \in ServerAnswers(endpointGroupsList, listRequest(client, ListParams(search, brief))) :
            Finish([op |-> "List", search |-> search, briefRepresentation |-> brief],
                   List(client, search, brief, r))

CallListPaginated ==
    /\ pc = "idle"
    /\ \E search \in Searches, brief \in BOOLEAN, first \in Offsets, max \in Offsets :
        \E r \in ServerAnswers(endpointGroupsList,
                               listRequest(client, ListPaginatedParams(search, brief, first, max))) :
            Finish([op |-> "ListPaginated", search |-> search, briefRepresentation |-> brief,
                    first |-> first, max |-> max],
                   ListPaginated(client, search, brief, first, max, r))

CallListWithParams ==
    /\ pc = "idle"
    /\ \E params \in SearchGroupParamsSamples :
        \E r \in ServerAnswers(endpointGroupsList, listRequest(client, params)) :
            Finish([op |-> "ListWithParams", params |-> params],
                   ListWithParams(client, params, r))

CallListWithSubGroups ==
    /\ pc = "idle"
    /\ \E searchQuery \in SearchQueries, brief \in BOOLEAN, first \in Offsets, max \in Offsets :
        \E r \in ServerAnswers(endpointGroupsList,
                               listRequest(client, ListWithSubGroupsParams(searchQuery, brief, first, max))) :
            Finish([op |-> "ListWithSubGroups", searchQuery |-> searchQuery,
                    briefRepresentation |-> brief, first |-> first, max |-> max],
                   ListWithSubGroups(client, searchQuery, brief, first, max, r))

CallCount ==
    /\ pc = "idle"
    /\ \E search \in Searches, top \in {Nil, Ptr(TRUE), Ptr(FALSE)} :
        \E r \in ServerAnswers(endpointGroupsCount, Nil) :
            Finish([op |-> "Count", search |-> search, top |-> top],
                   Count(client, search, top, r))

CallGet ==
    /\ pc = "idle"
    /\ \E groupID \in GroupIDs :
        \E r \in ServerAnswers(endpointGroupGet, Nil) :
            Finish([op |-> "Get", groupID |-> groupID], Get(client, groupID, r))

\* GetByAttribute up to its loop (group.go:293-303).
CallGetByAttribute ==
    /\ pc = "idle"
    /\ \E attribute \in {Nil, Ptr(SearchedAttribute)} :
        IF attribute = Nil
        THEN Finish([op |-> "GetByAttribute", attribute |-> attribute],
                    Local(Nil, NewError(<<"attribute parameter cannot be nil">>)))
        ELSE /\ pc' = "paging"
             /\ call' = [op |-> "GetByAttribute", attribute |-> attribute]
             /\ currentPage' = 0
             /\ UNCHANGED <<client, collection, requests, resp, ret>>

\* One pass of GetByAttribute's loop (group.go:305-322).
GetByAttributeLoop ==
    /\ pc = "paging"
    /\ \E r \in ServerAnswers(endpointGroupsList,
                              listRequest(client, ListPaginatedParams(Nil, FALSE,
                                  currentPage * client.pageSize, client.pageSize))) :
        LET pass == GetByAttributePass(client, call.attribute, currentPage, r)
        IN  IF pass.next
            THEN /\ currentPage' = currentPage + 1
                 /\ requests' = requests \o pass.out.requests
                 /\ resp' = pass.out.resp
                 /\ UNCHANGED <<client, collection, pc, call, ret>>
            ELSE Finish(call, pass.out)

CallGetSubGroupByID ==
    /\ pc = "idle"
    /\ \E group \in ParentGroups, subGroupID \in SubGroupIDs :
        Finish([op |-> "GetSubGroupByID", group |-> group, subGroupID |-> subGroupID],
               GetSubGroupByID(group, subGroupID))

CallCreateSubGroup ==
    /\ pc = "idle"
    /\ \E groupID \in GroupIDs, name \in Names, attributes \in AttributeMaps :
        \E r \in ServerAnswers(endpointGroupChildCreate, Nil) :
            Finish([op |-> "CreateSubGroup", groupID |-> groupID, name |-> name,
                    attributes |-> attributes],
                   CreateSubGroup(client, groupID, name, attributes, r))

CallListSubGroups ==
    /\ pc = "idle"
    /\ \E groupID \in GroupIDs :
        \E r \in ServerAnswers(endpointGroupChildren, Nil) :
            Finish([op |-> "ListSubGroups", groupID |-> groupID],
                   ListSubGroups(client, groupID, r))

CallListSubGroupsPaginated ==
    /\ pc = "idle"
    /\ \E groupID \in GroupIDs, params \in SubGroupSearchParamsSamples :
        \E r \in ServerAnswers(endpointGroupChildren, Nil) :
            Finish([op |-> "ListSubGroupsPaginated", groupID |-> groupID, params |-> params],
                   ListSubGroupsPaginated(client, groupID, params, r))

\* The parent group is one fetched with its hierarchy: its subGroups are the
\* collection, or absent.
CallGetSubGroupByAttribute ==
    /\ pc = "idle"
    /\ \E subs \in {Nil, Ptr(collection)} :
        LET group == [ZeroGroup EXCEPT !.ID = Ptr(<<"p">>), !.SubGroups = subs]
        IN  Finish([op |-> "GetSubGroupByAttribute", group |-> group,
                    attribute |-> SearchedAttribute],
                   GetSubGroupByAttribute(group, SearchedAttribute))

CallListMembers ==
    /\ pc = "idle"
    /\ \E groupID \in GroupIDs, params \in GroupMembersParamsSamples :
        \E r \in ServerAnswers(endpointGroupMembers, Nil) :
            Finish([op |-> "ListMembers", groupID |-> groupID, params |-> params],
                   ListMembers(client, groupID, params, r))

CallGetManagementPermissions ==
    /\ pc = "idle"
    /\ \E groupID \in GroupIDs :
        \E r \in ServerAnswers(endpointGroupPermsGet, Nil) :
            Finish([op |-> "GetManagementPermissions", groupID |-> groupID],
                   GetManagementPermissions(client, groupID, r))

CallUpdateManagementPermissions ==
    /\ pc = "idle"
    /\ \E groupID \in GroupIDs, ref \in SampleRefs :
        \E r \in ServerAnswers(endpointGroupPermsUpdate, Nil) :
            Finish([op |-> "UpdateManagementPermissions", groupID |-> groupID, ref |-> ref],
                   UpdateManagementPermissions(client, groupID, ref, r))

\* A client on the sample collection, with the default page size or a small
\* one.
Init ==
    /\ client \in [baseURL : {<<"https://kc">>}, realm : {<<"r1">>},
                   pageSize : {MaxPageSize, defaultSize}]
    /\ collection = SampleCollection
    /\ pc = "idle"
    /\ call = NoCall
    /\ currentPage = 0
    /\ requests = <<>>
    /\ resp = Nil
    /\ ret = NoRet

Next ==
    \/ CallCreate
    \/ CallUpdate
    \/ CallDelete
    \/ CallList
    \/ CallListPaginated
    \/ CallListWithParams
    \/ CallListWithSubGroups
    \/ CallCount
    \/ CallGet
    \/ CallGetByAttribute
    \/ GetByAttributeLoop
    \/ CallGetSubGroupByID
    \/ CallCreateSubGroup
    \/ CallListSubGroups
    \/ CallListSubGroupsPaginated
    \/ CallGetSubGroupByAttribute
    \/ CallListMembers
    \/ CallGetManagementPermissions
    \/ CallUpdateManagementPermissions

Spec == Init /\ [][Next]_vars

\* The attribute search alone, over every collection and page size within
\* the bounds.
InitSearch ==
    /\ client \in [baseURL : {<<"https://kc">>}, realm : {<<"r1">>}, pageSize : PageSizes]
    /\ collection \in Collections
    /\ pc = "idle"
    /\ call = NoCall
    /\ currentPage = 0
    /\ requests = <<>>
    /\ resp = Nil
    /\ ret = NoRet

NextSearch ==
    \/ CallGetByAttribute
    \/ GetByAttributeLoop
    \/ CallGetSubGroupByAttribute

SpecSearch == InitSearch /\ [][NextSearch]_vars

\* ---------------------------------------------------------- properties

\* A call has returned.
Returned(op) == pc = "done" /\ call.op = op

\* Every request of the call was answered with a 2xx status.
Served == ret.err.kind \in {"nil", "sentinel"}

\* The group's attributes hold exactly the one value under the key.
Matches(g, attribute) ==
    /\ g # Nil
    /\ Deref(g).Attributes # Nil
    /\ attribute.Key \in DOMAIN Deref(Deref(g).Attributes)
    /\ Deref(Deref(g).Attributes)[attribute.Key] = <<attribute.Value>>

MatchIndexes == {i \in DOMAIN collection : Matches(collection[i], SearchedAttribute)}

FirstMatch == CHOOSE i \in MatchIndexes : \A j \in MatchIndexes : i <= j

\* The 0-indexed page of the collection its i-th group is on.
PageOf(i) == (i - 1) \div client.pageSize

SearchStarted == call.op = "GetByAttribute" /\ call.attribute # Nil

\* C1: GetByAttribute on a served collection whose first match is on page K
\* issues exactly K+1 page fetches and returns that match with no error.
C1_MatchOnPageK ==
    (pc = "done" /\ SearchStarted /\ Served /\ MatchIndexes # {})
        => /\ Len(requests) = PageOf(FirstMatch) + 1
           /\ ret.err = NoError
           /\ ret.val = collection[FirstMatch]

\* The i-th fetch of the search asks for max = pageSize groups from offset
\* (i-1) * pageSize on.
FetchesInOrder ==
    \A i \in DOMAIN requests :
        /\ requests[i].query["first"] = Itoa((i - 1) * client.pageSize)
        /\ requests[i].query["max"] = Itoa(client.pageSize)

\* C2 as stated: GetByAttribute on a served collection of total groups with
\* no match fetches exactly ceil(total/P) pages and returns the
\* GroupNotFound sentinel with a nil group.
C2_NoMatchFetchesCeil ==
    (pc = "done" /\ SearchStarted /\ Served /\ MatchIndexes = {})
        => /\ Len(requests) = (Len(collection) + client.pageSize - 1) \div client.pageSize
           /\ ret.val = Nil
           /\ ret.err = ErrGroupNotFound

\* C2: GetByAttribute on a served collection of total groups with no match
\* fetches exactly floor(total/P) + 1 pages, in order, the last of them
\* partial or empty, and returns the GroupNotFound sentinel with a nil
\* group; it never fetches beyond that page.
C2_NoMatchFetchesFloorPlusOne ==
    (SearchStarted /\ MatchIndexes = {})
        => /\ pc = "paging" =>
                /\ Len(requests) = currentPage
                /\ currentPage <= Len(collection) \div client.pageSize
           /\ (pc = "done" /\ Served) =>
                /\ Len(requests) = (Len(collection) \div client.pageSize) + 1
                /\ FetchesInOrder
                /\ ret.val = Nil
                /\ ret.err = ErrGroupNotFound

\* A full collection without a match has been searched to the empty page
\* after it.
C2_Witness ==
    /\ pc = "done" /\ SearchStarted /\ Served /\ MatchIndexes = {}
    /\ Len(collection) = client.pageSize
    /\ Len(requests) = 2
    /\ ret.err = ErrGroupNotFound

SearchedOf(c) == IF c.op = "GetByAttribute" THEN Deref(c.attribute) ELSE c.attribute

\* C3: the group GetByAttribute or GetSubGroupByAttribute returns holds
\* exactly the searched value under the key, never more than one value.
C3_NeverMatchesMultiValued ==
    (pc = "done" /\ call.op \in {"GetByAttribute", "GetSubGroupByAttribute"} /\ ret.val # Nil)
        => /\ ret.err = NoError
           /\ Matches(ret.val, SearchedOf(call))
           /\ Len(Deref(Deref(ret.val).Attributes)[SearchedOf(call).Key]) = 1

\* The sub-groups hold a group with the searched value among two, and the
\* search has returned another group.
C3_Witness ==
    /\ Returned("GetSubGroupByAttribute")
    /\ \E i \in DOMAIN collection :
        /\ collection[i] # Nil
        /\ Deref(collection[i]).Attributes # Nil
        /\ SearchedAttribute.Key \in DOMAIN Deref(Deref(collection[i]).Attributes)
        /\ Deref(Deref(collection[i]).Attributes)[SearchedAttribute.Key] = << <<"v">>, <<"w">> >>
    /\ ret.val # Nil

GroupIDOps ==
    {"Get", "Delete", "CreateSubGroup", "ListSubGroups", "ListSubGroupsPaginated",
     "ListMembers", "GetManagementPermissions", "UpdateManagementPermissions"}

\* The call was given its required argument empty or nil.
EmptyArgument ==
    CASE call.op \in GroupIDOps -> call.groupID = <<>>
      [] call.op = "Update" -> IsZero(call.group.ID)
      [] call.op = "GetByAttribute" -> call.attribute = Nil
      [] OTHER -> FALSE

EmptySubGroupID == call.op = "GetSubGroupByID" /\ call.subGroupID = <<>>

LocalValidationError == ret.err.kind = "local" /\ requests = <<>> /\ resp = Nil

\* C4 as stated: every operation taking a groupID, subGroupID or attribute,
\* GetSubGroupByID among them, fails with a local validation error and
\* issues no request when that argument is empty or nil.
C4_EmptyArgumentFailsLocally ==
    (pc = "done" /\ (EmptyArgument \/ EmptySubGroupID)) => LocalValidationError

\* C4: every operation taking a groupID, a group id or an attribute fails
\* with a local validation error and issues no request when that argument
\* is empty or nil; GetSubGroupByID does not validate an empty subGroupID:
\* it issues no request and returns the first sub-group whose id is the
\* empty string, or the GroupNotFound sentinel when there is none.
C4_EmptyArgumentFailsLocallyButSubGroupID ==
    /\ (pc = "done" /\ EmptyArgument) => LocalValidationError
    /\ (pc = "done" /\ EmptySubGroupID) =>
            /\ requests = <<>>
            /\ \/ ret.val = Nil /\ ret.err = ErrGroupNotFound
               \/ /\ ret.err = NoError
                  /\ ret.val # Nil
                  /\ Deref(ret.val).ID = Ptr(<<>>)

\* An update of a group whose id points to the empty string was refused.
C4_Witness ==
    /\ Returned("Update")
    /\ call.group.ID = Ptr(<<>>)
    /\ ret.err = NewError(<<"the ID of the group is required">>)
    /\ requests = <<>>

\* C5: Get with a non-empty groupID returns the ErrGroupNotFound sentinel
\* with a nil group on a 404, and an error that is not the sentinel, with a
\* nil group, on every other non-2xx status.
C5_Get404IsSentinel ==
    (Returned("Get") /\ call.groupID # <<>> /\ Deref(resp).kind = "http" /\ ~IsSuccess(Deref(resp)))
        => /\ ret.val = Nil
           /\ ret.err # NoError
           /\ (Deref(resp).status = 404) <=> (ret.err = ErrGroupNotFound)

C5_Witness ==
    /\ Returned("Get") /\ call.groupID # <<>>
    /\ Deref(resp).kind = "http" /\ Deref(resp).status = 404
    /\ ret.err = ErrGroupNotFound

\* C8: the one request ListWithSubGroups issues carries search (empty when
\* the search string is empty), populateHierarchy=true, and
\* briefRepresentation, first and max from its arguments, and nothing else.
C8_ListWithSubGroupsQuery ==
    Returned("ListWithSubGroups")
        => /\ Len(requests) = 1
           /\ DOMAIN requests[1].query =
                {"search", "populateHierarchy", "briefRepresentation", "first", "max"}
           /\ requests[1].query["search"] = call.searchQuery
           /\ requests[1].query["populateHierarchy"] = <<"true">>
           /\ requests[1].query["briefRepresentation"] = FormatBool(call.briefRepresentation)
           /\ requests[1].query["first"] = Itoa(call.first)
           /\ requests[1].query["max"] = Itoa(call.max)

C8_Witness ==
    /\ Returned("ListWithSubGroups")
    /\ call.searchQuery = <<>>
    /\ "search" \in DOMAIN requests[1].query
    /\ requests[1].query["search"] = <<>>

CreatedOn2xx ==
    /\ pc = "done"
    /\ call.op \in {"Create", "CreateSubGroup"}
    /\ requests # <<>>
    /\ Deref(resp).kind = "http"
    /\ IsSuccess(Deref(resp))

Location == HeaderGet(Deref(resp).header, "Location")

\* The last non-empty stretch of s between slashes; empty when there is none.
LastSegment(s) ==
    LET ends == {j \in DOMAIN s : s[j] # "/"}
    IN  IF ends = {} THEN <<>>
        ELSE LET j == CHOOSE x \in ends : \A y \in ends : y <= x
                 starts == {i \in 1..j : \A k \in i..j : s[k] # "/"}
                 i == CHOOSE x \in starts : \A y \in starts : x <= y
             IN  SubSeq(s, i, j)

\* C10 as stated: on any 2xx Create and CreateSubGroup return a
\* '/'-delimited segment of the Location header, the last one, and the empty
\* string with a nil error when the header is missing or empty.
C10_IdIsLastSegment ==
    CreatedOn2xx
        => /\ ret.err = NoError
           /\ ret.val = LastSegment(Location)

\* C10: on any 2xx Create and CreateSubGroup return, with a nil error, the
\* last non-empty '/'-delimited segment of the Location header, trailing
\* slashes ignored; "/" when the header holds nothing but slashes; the
\* empty string when the header is missing or empty.
C10_IdIsBaseOfLocation ==
    CreatedOn2xx
        => /\ ret.err = NoError
           /\ ret.val = IF Location = <<>> THEN <<>>
                        ELSE IF \A i \in DOMAIN Location : Location[i] = "/" THEN <<"/">>
                        ELSE LastSegment(Location)

C10_Witness ==
    /\ Returned("Create")
    /\ Deref(resp).kind = "http" /\ Deref(resp).status = 201
    /\ Location = <<"a", "/", "b">>
    /\ ret.val = <<"b">>
    /\ ret.err = NoError

\* ------------------------------------------------- sub-group look-ups

\* The two in-memory look-ups, over every collection within the bounds as
\* the sub-groups of the parent.
NextSubGroups ==
    \/ CallGetSubGroupByID
    \/ CallGetSubGroupByAttribute

SpecSubGroups == InitSearch /\ [][NextSubGroups]_vars

\* The entries of the sub-groups that carry the id.
IDHits(subGroups, subGroupID) ==
    {i \in DOMAIN subGroups :
        /\ subGroups[i] # Nil
        /\ Deref(subGroups[i]).ID # Nil
        /\ Deref(Deref(subGroups[i]).ID) = subGroupID}

\* C11: GetSubGroupByID and GetSubGroupByAttribute issue no request and look
\* at the direct sub-groups only; both return the GroupNotFound sentinel
\* with a nil group when subGroups is absent or holds no match, and
\* GetSubGroupByID otherwise returns the first entry that is not nil, has an
\* id, and whose id equals subGroupID.
C11_SubGroupLookups ==
    /\ (pc = "done" /\ call.op \in {"GetSubGroupByID", "GetSubGroupByAttribute"})
            => /\ requests = <<>>
               /\ resp = Nil
               /\ ret.val # Nil => ret.val \in Range(Deref(call.group.SubGroups))
    /\ Returned("GetSubGroupByID") =>
            IF call.group.SubGroups = Nil
            THEN ret.val = Nil /\ ret.err = ErrGroupNotFound
            ELSE LET subGroups == Deref(call.group.SubGroups)
                     hits == IDHits(subGroups, call.subGroupID)
                 IN  IF hits = {}
                     THEN ret.val = Nil /\ ret.err = ErrGroupNotFound
                     ELSE /\ ret.err = NoError
                          /\ \E i \in hits :
                                /\ \A j \in hits : i <= j
                                /\ ret.val = subGroups[i]
    /\ (/\ Returned("GetSubGroupByAttribute")
        /\ \/ call.group.SubGroups = Nil
           \/ \A i \in DOMAIN Deref(call.group.SubGroups) :
                ~Matches(Deref(call.group.SubGroups)[i], call.attribute))
            => ret.val = Nil /\ ret.err = ErrGroupNotFound

\* A nil entry, an entry without id and an entry with another id were
\* passed over before the entry with the id was returned.
C11_Witness ==
    /\ Returned("GetSubGroupByID")
    /\ call.subGroupID = <<"g3">>
    /\ call.group.SubGroups # Nil
    /\ Len(Deref(call.group.SubGroups)) = 4
    /\ Deref(call.group.SubGroups)[1] = Nil
    /\ ret.err = NoError
    /\ ret.val = Deref(call.group.SubGroups)[4]

\* ------------------------------------------------- errors of the calls

\* The words every error of an operation's exchange starts with.
PrefixOf(op) ==
    CASE op = "Create" -> <<"unable to create group">>
      [] op = "Update" -> <<"unable to update group">>
      [] op \in {"List", "ListPaginated", "ListWithParams", "ListWithSubGroups",
                 "GetByAttribute", "ListSubGroups"} -> <<"unable to list groups">>
      [] op = "Count" -> <<"unable to count groups">>
      [] op = "Get" -> <<"unable to get group">>
      [] op = "CreateSubGroup" -> <<"unable to create sub-group">>
      [] op = "ListSubGroupsPaginated" -> <<"unable to list sub-groups">>
      [] op = "Delete" -> <<"unable to delete group">>
      [] op = "ListMembers" -> <<"unable to list group members">>
      [] op = "GetManagementPermissions" -> <<"unable to get management permissions">>
      [] op = "UpdateManagementPermissions" -> <<"unable to update management permissions">>

\* The zero value of an operation's result.
ZeroOf(op) == IF op = "Count" THEN 0 ELSE <<>>

\* The transport failed on the last request of the call.
TransportFailed == requests # <<>> /\ resp # Nil /\ Deref(resp).kind = "failure"

\* C12: a transport failure in any operation is returned as a transport
\* error with the operation's prefix and a zero result, never as the
\* GroupNotFound sentinel; in GetByAttribute the failed page fetch is the
\* last one: every fetch before it was answered with a 2xx status.
C12_TransportFailureIsTransportError ==
    /\ (pc = "done" /\ TransportFailed)
            => /\ ret.err.kind = "transport"
               /\ ret.err.msg = PrefixOf(call.op)
               /\ ret.err # ErrGroupNotFound
               /\ ret.val = ZeroOf(call.op)
               /\ call.op = "GetByAttribute" => Len(requests) = currentPage + 1
               /\ call.op # "GetByAttribute" => Len(requests) = 1
    /\ (pc = "paging" /\ resp # Nil)
            => /\ Deref(resp).kind = "http"
               /\ IsSuccess(Deref(resp))
               /\ Len(requests) = currentPage

\* The second page fetch of a search failed in the transport.
C12_Witness ==
    /\ Returned("GetByAttribute")
    /\ TransportFailed
    /\ Len(requests) = 2
    /\ ret.err = WrapTransport(<<"unable to list groups">>)

\* ------------------------------------------------------- round trips

NetworkOps ==
    GroupIDOps \cup {"Create", "Update", "List", "ListPaginated", "ListWithParams",
                     "ListWithSubGroups", "Count", "GetByAttribute"}

\* C13: every network operation called with valid arguments other than
\* GetByAttribute has, when it returns whatever the outcome, issued exactly
\* one request; only GetByAttribute issues more than one, one per step, each
\* answered before the next is issued, and no more than one per page of the
\* collection plus one, so that it returns.
C13_OneRoundTrip ==
    /\ [](/\ (pc = "done" /\ call.op \in NetworkOps \ {"GetByAttribute"} /\ ~EmptyArgument)
                => Len(requests) = 1 /\ resp # Nil
          /\ Len(requests) > 1 => call.op = "GetByAttribute"
          /\ (pc = "done" /\ SearchStarted) => Len(requests) >= 1
          /\ Len(requests) <= (Len(collection) \div client.pageSize) + 1
          /\ pc = "paging" => Len(requests) = currentPage
          /\ pc = "idle" => requests = <<>>)
    /\ [][requests' # requests
            => /\ Len(requests') = Len(requests) + 1
               /\ SubSeq(requests', 1, Len(requests)) = requests
               /\ resp' # Nil]_vars

\* A listing of members failed in the transport after its one request.
C13_Witness ==
    /\ Returned("ListMembers")
    /\ TransportFailed
    /\ Len(requests) = 1

\* -------------------------------------------------- concurrent callers

\* Independent call sites that share the one client.  Under SpecConcurrent
\* pc, call, currentPage, requests, resp and ret hold one value per call
\* site (the locals of that caller's stack frame), resp the answers the
\* caller has received so far; client and collection are shared.
CallSites == {"s1", "s2"}

SharedClient == [baseURL |-> <<"https://kc">>, realm |-> <<"r1">>, pageSize |-> MaxPageSize]

InitConcurrent ==
    /\ client = SharedClient
    /\ collection = SampleCollection
    /\ pc = [p \in CallSites |-> "idle"]
    /\ call = [p \in CallSites |-> NoCall]
    /\ currentPage = [p \in CallSites |-> 0]
    /\ requests = [p \in CallSites |-> <<>>]
    /\ resp = [p \in CallSites |-> <<>>]
    /\ ret = [p \in CallSites |-> NoRet]

\* The caller at p returns from its call.
FinishAt(p, c, out, r) ==
    /\ pc' = [pc EXCEPT ![p] = "done"]
    /\ call' = [call EXCEPT ![p] = c]
    /\ requests' = [requests EXCEPT ![p] = @ \o out.requests]
    /\ resp' = [resp EXCEPT ![p] = IF out.requests = <<>> THEN @ ELSE Append(@, r)]
    /\ ret' = [ret EXCEPT ![p] = out.ret]
    /\ UNCHANGED <<client, collection, currentPage>>

\* group.go:167-174, called at p
ListPaginatedAt(p) ==
    /\ pc[p] = "idle"
    /\ \E first \in Offsets :
        \E r \in ServerAnswers(endpointGroupsList,
                               listRequest(client, ListPaginatedParams(Nil, FALSE, first, 1))) :
            FinishAt(p, [op |-> "ListPaginated", search |-> Nil, briefRepresentation |-> FALSE,
                         first |-> first, max |-> 1],
                     ListPaginated(client, Nil, FALSE, first, 1, r), r)

\* group.go:140-156, called at p
UpdateAt(p) ==
    /\ pc[p] = "idle"
    /\ \E group \in UpdatedGroups :
        \E r \in ServerAnswers(endpointGroupUpdate, Nil) :
            FinishAt(p, [op |-> "Update", group |-> group], Update(client, group, r), r)

\* group.go:293-303, called at p
GetByAttributeAt(p) ==
    /\ pc[p] = "idle"
    /\ pc' = [pc EXCEPT ![p] = "paging"]
    /\ call' = [call EXCEPT ![p] = [op |-> "GetByAttribute", attribute |-> Ptr(SearchedAttribute)]]
    /\ currentPage' = [currentPage EXCEPT ![p] = 0]
    /\ UNCHANGED <<client, collection, requests, resp, ret>>

GetByAttributeLoopAt_SharedPage(p) ==
    LET shared == CHOOSE q \in CallSites : TRUE
    IN  /\ pc[p] = "paging"
        /\ \E r \in ServerAnswers(endpointGroupsList,
                                  listRequest(client, ListPaginatedParams(Nil, FALSE,
                                      currentPage[shared] * client.pageSize, client.pageSize))) :
            LET pass == GetByAttributePass(client, call[p].attribute, currentPage[shared], r)
            IN  IF pass.next
                THEN /\ currentPage' = [currentPage EXCEPT ![shared] = @ + 1]
                     /\ requests' = [requests EXCEPT ![p] = @ \o pass.out.requests]
                     /\ resp' = [resp EXCEPT ![p] = Append(@, r)]
                     /\ UNCHANGED <<client, collection, pc, call, ret>>
                ELSE FinishAt(p, call[p], pass.out, r)

\* group.go:305-322: one pass of the loop of the search running at p
GetByAttributeLoopAt(p) ==
    /\ pc[p] = "paging"
    /\ \E r \in ServerAnswers(endpointGroupsList,
                              listRequest(client, ListPaginatedParams(Nil, FALSE,
                                  currentPage[p] * client.pageSize, client.pageSize))) :
        LET pass == GetByAttributePass(client, call[p].attribute, currentPage[p], r)
        IN  IF pass.next
            THEN /\ currentPage' = [currentPage EXCEPT ![p] = @ + 1]
                 /\ requests' = [requests EXCEPT ![p] = @ \o pass.out.requests]
                 /\ resp' = [resp EXCEPT ![p] = Append(@, r)]
                 /\ UNCHANGED <<client, collection, pc, call, ret>>
            ELSE FinishAt(p, call[p], pass.out, r)

NextConcurrent ==
    \/ \E p \in CallSites : ListPaginatedAt(p)
    \/ \E p \in CallSites : UpdateAt(p)
    \/ \E p \in CallSites : GetByAttributeAt(p)
    \/ \E p \in CallSites : GetByAttributeLoopAt(p)

SpecConcurrent == InitConcurrent /\ [][NextConcurrent]_vars

\* The search run alone from the given page on, against the answers resps
\* in turn: the requests it issues and what it returns.
RECURSIVE SearchAlone(_, _, _, _)
SearchAlone(c, attribute, page, resps) ==
    LET pass == GetByAttributePass(c, attribute, page, Head(resps))
    IN  IF pass.next /\ Len(resps) > 1
        THEN LET rest == SearchAlone(c, attribute, page + 1, Tail(resps))
             IN  [requests |-> pass.out.requests \o rest.requests, ret |-> rest.ret]
        ELSE [requests |-> pass.out.requests, ret |-> pass.out.ret]

\* The call c made alone on client cl against the answers resps.
Alone(cl, c, resps) ==
    LET r == IF resps = <<>> THEN TransportFailure ELSE Head(resps)
    IN  CASE c.op = "ListPaginated" ->
                LET out == ListPaginated(cl, c.search, c.briefRepresentation, c.first, c.max, r)
                IN  [requests |-> out.requests, ret |-> out.ret]
          [] c.op = "Update" ->
                LET out == Update(cl, c.group, r)
                IN  [requests |-> out.requests, ret |-> out.ret]
          [] c.op = "GetByAttribute" -> SearchAlone(cl, c.attribute, 0, resps)

\* C14: whatever the interleaving of the calls made on one client, the
\* client's baseURL, realm and pageSize stay as configured, and every call
\* that has returned issued the requests and returned the result it would
\* have alone against the answers it received.
C14_ConcurrentCallsDoNotInterfere ==
    /\ client = SharedClient
    /\ \A p \in CallSites :
        /\ pc[p] = "done" =>
            /\ requests[p] = Alone(SharedClient, call[p], resp[p]).requests
            /\ ret[p] = Alone(SharedClient, call[p], resp[p]).ret
        /\ pc[p] = "paging" =>
            /\ Len(requests[p]) = currentPage[p]
            /\ Len(resp[p]) = currentPage[p]
            /\ requests[p] = SubSeq(Alone(SharedClient, call[p],
                                          resp[p] \o <<TransportFailure>>).requests,
                                    1, currentPage[p])

\* One search has found the group on its second page while the other
\* search, started on the same client, is past its first page.
C14_Witness ==
    /\ pc["s1"] = "done"
    /\ call["s1"].op = "GetByAttribute"
    /\ Len(requests["s1"]) = 2
    /\ ret["s1"].err = NoError
    /\ pc["s2"] = "paging"
    /\ currentPage["s2"] = 1

\* ----------------------------------------- the projector on its own

ParamsTags ==
    {SearchGroupParamsTags, CountGroupParamsTags, SubGroupSearchParamsTags,
     GroupMembersParamsTags}

IntSamples == {0, 10}
StringSamples == {<<>>, <<"parent">>}

\* What a field of the type may hold: nil, or a pointer to a value.
FieldValues(type) ==
    {Nil} \cup {Ptr(v) : v \in CASE type = "bool" -> BOOLEAN
                                 [] type = "int" -> IntSamples
                                 [] type = "string" -> StringSamples
                                 [] type \in {"chan", "func"} -> {"live"}}

\* Every parameter record of the tags.
FieldsOf(tags, type) == {t.field : t \in {u \in tags : u.type = type}}

ParamsOf(tags) ==
    {[f \in {t.field : t \in tags} |->
        IF f \in DOMAIN b THEN b[f] ELSE IF f \in DOMAIN i THEN i[f]
        ELSE IF f \in DOMAIN s THEN s[f] ELSE h[f]] :
        b \in [FieldsOf(tags, "bool") -> FieldValues("bool")],
        i \in [FieldsOf(tags, "int") -> FieldValues("int")],
        s \in [FieldsOf(tags, "string") -> FieldValues("string")],
        h \in [FieldsOf(tags, "chan") \cup FieldsOf(tags, "func") -> FieldValues("chan")]}

\* util.go:79-95
CallMapper ==
    /\ pc = "idle"
    /\ \E tags \in ParamsTags :
        \E s \in ParamsOf(tags) :
            Finish([op |-> "mapper", tags |-> tags, s |-> s],
                   Local(mapper(tags, s), mapperErr(tags, s)))

NextMapper == CallMapper

SpecMapper == Init /\ [][NextMapper]_vars

\* The string a set field is expected to show as in the query.
PlainForm(type, v) ==
    CASE type = "bool" -> IF v THEN <<"true">> ELSE <<"false">>
      [] type = "int" -> IF v = 0 THEN <<"0">> ELSE <<"1", "0">>
      [] type = "string" -> v

Config(URL, Realm, ClientID, ClientSecret) ==
    [URL |-> URL, Realm |-> Realm, ClientID |-> ClientID, ClientSecret |-> ClientSecret]

\* An http.Client: which one it is, and its Timeout.
HTTPClient(name, timeout) == [name |-> name, timeout |-> timeout]

\* resty.NewWithClient: a resty client around the http client, with no
\* retries, no debug output and no headers of its own.  timeout is the
\* Timeout of the http client, which is where resty's SetTimeout keeps it.
NewWithClient(hc) ==
    [httpClient |-> hc.name, timeout |-> hc.timeout, retryCount |-> 0, debug |-> FALSE,
     header |-> NoHeader]

\* client.go:260: the resty client New makes, around the http client that
\* fetches and attaches the access token.
DefaultResty == NewWithClient(HTTPClient("oauth", 0))

\* What applying an option comes to: the client after it and its error.
Applied(c, err) == [client |-> c, err |-> err]

WithPageSize_NoCheck(c, size) == Applied([c EXCEPT !.pageSize = size], NoError)

\* client.go:78-86
WithPageSize(c, size) ==
    IF size <= 0
    THEN Applied(c, NewError(<<"page size must be positive, got ">> \o Itoa(size)))
    ELSE Applied([c EXCEPT !.pageSize = size], NoError)

\* client.go:117-125
WithTimeout(c, timeout) ==
    IF timeout < 0
    THEN Applied(c, NewError(<<"timeout must be non-negative, got ">> \o Itoa(timeout)))
    ELSE Applied([c EXCEPT !.resty.timeout = timeout], NoError)

\* client.go:134-145
WithRetry(c, count) ==
    IF count < 0
    THEN Applied(c, NewError(<<"retry count must be non-negative, got ">> \o Itoa(count)))
    ELSE Applied([c EXCEPT !.resty.retryCount = count], NoError)

WithHTTPClient_NilAccepted(c, httpClient) ==
    Applied([c EXCEPT !.resty = NewWithClient(IF httpClient = Nil THEN HTTPClient("nil", 0)
                                              ELSE Deref(httpClient))], NoError)

WithHTTPClient_SettingsKept(c, httpClient) ==
    IF httpClient = Nil
    THEN Applied(c, NewError(<<"http client cannot be nil">>))
    ELSE Applied([c EXCEPT !.resty.httpClient = Deref(httpClient).name,
                           !.resty.timeout = Deref(httpClient).timeout], NoError)

\* client.go:101-109
WithHTTPClient(c, httpClient) ==
    IF httpClient = Nil
    THEN Applied(c, NewError(<<"http client cannot be nil">>))
    ELSE Applied([c EXCEPT !.resty = NewWithClient(Deref(httpClient))], NoError)

\* client.go:152-157
WithDebug(c, debug) == Applied([c EXCEPT !.resty.debug = debug], NoError)

\* client.go:168-173: resty's SetHeaders sets every header of the map.
WithHeaders(c, headers) ==
    Applied([c EXCEPT !.resty.header =
                [k \in DOMAIN @ \cup DOMAIN headers |->
                    IF k \in DOMAIN headers THEN headers[k] ELSE @[k]]], NoError)

\* client.go:182-187
WithUserAgent(c, userAgent) ==
    Applied([c EXCEPT !.resty.header =
                [k \in DOMAIN @ \cup {"User-Agent"} |->
                    IF k = "User-Agent" THEN userAgent ELSE @[k]]], NoError)

\* An Option value, and its application opt(c).
Option(name, arg) == [name |-> name, arg |-> arg]

ApplyOption(c, opt) ==
    CASE opt.name = "WithPageSize" -> WithPageSize(c, opt.arg)
      [] opt.name = "WithTimeout" -> WithTimeout(c, opt.arg)
      [] opt.name = "WithRetry" -> WithRetry(c, opt.arg)
      [] opt.name = "WithHTTPClient" -> WithHTTPClient(c, opt.httpClient)
      [] opt.name = "WithDebug" -> WithDebug(c, opt.debug)
      [] opt.name = "WithHeaders" -> WithHeaders(c, opt.headers)
      [] opt.name = "WithUserAgent" -> WithUserAgent(c, opt.userAgent)

\* client.go:268-273: the options in turn, up to the first that fails.
RECURSIVE applyOptions(_, _)
applyOptions(c, opts) ==
    IF opts = <<>> THEN Applied(c, NoError)
    ELSE LET first == ApplyOption(c, Head(opts))
         IN  IF first.err # NoError
             THEN Applied(c, NewError(<<"failed to apply option: ">> \o first.err.msg))
             ELSE applyOptions(first.client, Tail(opts))

\* url.JoinPath fails on a base it cannot parse (a broken escape here), and
\* joins without doubling the slash of a base that ends in one.
ParseOK(u) == \A i \in DOMAIN u : u[i] # "%zz"

RECURSIVE TrimSlashes(_)
TrimSlashes(u) ==
    IF u # <<>> /\ u[Len(u)] = "/" THEN TrimSlashes(SubSeq(u, 1, Len(u) - 1)) ELSE u

JoinPath(base, a, b) == TrimSlashes(base) \o <<"/", a, "/">> \o b

\* What New comes to: the requests it issued, the client and the error.
Constructed(reqs, c, err) == [requests |-> reqs, ret |-> [val |-> c, err |-> err]]

DiscoveryRequest(url) == [method |-> "GET", url |-> url, query |-> NoQuery, body |-> Nil]

New_ClientKeptOnOptionError(config, opts, discovered) ==
    IF config.URL = <<>> THEN Constructed(<<>>, Nil, NewError(<<"URL is required">>))
    ELSE IF config.Realm = <<>> THEN Constructed(<<>>, Nil, NewError(<<"realm is required">>))
    ELSE IF config.ClientID = <<>>
    THEN Constructed(<<>>, Nil, NewError(<<"clientID is required">>))
    ELSE IF config.ClientSecret = <<>>
    THEN Constructed(<<>>, Nil, NewError(<<"clientSecret is required">>))
    ELSE IF ~ParseOK(config.URL)
    THEN Constructed(<<>>, Nil, NewError(<<"invalid base URL">>))
    ELSE LET realmURL == JoinPath(config.URL, "realms", config.Realm)
             reqs == <<DiscoveryRequest(realmURL)>>
             made == applyOptions([baseURL |-> config.URL, realm |-> config.Realm,
                                   pageSize |-> defaultSize, resty |-> DefaultResty], opts)
         IN  IF ~discovered THEN Constructed(reqs, Nil, WrapTransport(<<"login failed">>))
             ELSE Constructed(reqs, Ptr(made.client), made.err)

\* client.go:226-279; discovered says whether oidc.NewProvider got the
\* provider's configuration from the identity server.
New(config, opts, discovered) ==
    IF config.URL = <<>> THEN Constructed(<<>>, Nil, NewError(<<"URL is required">>))
    ELSE IF config.Realm = <<>> THEN Constructed(<<>>, Nil, NewError(<<"realm is required">>))
    ELSE IF config.ClientID = <<>>
    THEN Constructed(<<>>, Nil, NewError(<<"clientID is required">>))
    ELSE IF config.ClientSecret = <<>>
    THEN Constructed(<<>>, Nil, NewError(<<"clientSecret is required">>))
    ELSE IF ~ParseOK(config.URL)
    THEN Constructed(<<>>, Nil, NewError(<<"invalid base URL">>))
    ELSE LET realmURL == JoinPath(config.URL, "realms", config.Realm)
             reqs == <<DiscoveryRequest(realmURL)>>
             made == applyOptions([baseURL |-> config.URL, realm |-> config.Realm,
                                   pageSize |-> defaultSize, resty |-> DefaultResty], opts)
         IN  IF ~discovered THEN Constructed(reqs, Nil, WrapTransport(<<"login failed">>))
             ELSE IF made.err # NoError THEN Constructed(reqs, Nil, made.err)
             ELSE Constructed(reqs, Ptr(made.client), NoError)

URLs == {<<>>, <<"https://kc">>, <<"https://kc", "/">>, <<"https://kc", "%zz">>}

Configs ==
    {Config(u, r, id, secret) :
        u \in URLs, r \in {<<>>, <<"r1">>}, id \in {<<>>, <<"admin-cli">>},
        secret \in {<<>>, <<"secret">>}}

\* An http client of the caller's, with a Timeout of its own.
CallerHTTPClient == HTTPClient("caller", 5)

RequestIDHeader == [k \in {"X-Request-ID"} |-> <<"r1">>]

\* Options whose argument is not an integer keep it under a name of its own.
Options ==
    {Option("WithPageSize", size) : size \in -1..MaxPageSize}
        \cup {Option("WithTimeout", t) : t \in {-1, 0, 30}}
        \cup {Option("WithRetry", n) : n \in {-1, 0, 3}}
        \cup {[name |-> "WithHTTPClient", httpClient |-> h] : h \in {Nil, Ptr(CallerHTTPClient)}}
        \cup {[name |-> "WithDebug", debug |-> TRUE],
              [name |-> "WithHeaders", headers |-> RequestIDHeader],
              [name |-> "WithUserAgent", userAgent |-> <<"my-app/1.0">>]}

\* No client has been made yet.
InitClient ==
    /\ client = Nil
    /\ collection = <<>>
    /\ pc = "idle"
    /\ call = NoCall
    /\ currentPage = 0
    /\ requests = <<>>
    /\ resp = Nil
    /\ ret = NoRet

\* client.go:226-279
CallNew ==
    /\ pc = "idle"
    /\ \E config \in Configs, opts \in SeqsUpTo(Options, MaxOpts), discovered \in BOOLEAN :
        LET out == New(config, opts, discovered)
        IN  /\ pc' = "done"
            /\ call' = [op |-> "New", config |-> config, opts |-> opts]
            /\ requests' = out.requests
            /\ ret' = out.ret
            /\ client' = IF out.ret.val = Nil THEN Nil ELSE Deref(out.ret.val)
            /\ UNCHANGED <<collection, currentPage, resp>>

\* An option applied to the client New returned; call.opts keeps every
\* option applied to the client so far.
CallOption ==
    /\ pc = "done"
    /\ client # Nil
    /\ Len(call.opts) < MaxOpts
    /\ \E opt \in Options :
        LET out == ApplyOption(client, opt)
        IN  /\ client' = out.client
            /\ call' = [op |-> "Option", config |-> call.config,
                        opts |-> IF out.err = NoError THEN Append(call.opts, opt)
                                 ELSE call.opts,
                        opt |-> opt]
            /\ ret' = [val |-> Nil, err |-> out.err]
            /\ UNCHANGED <<collection, pc, currentPage, requests, resp>>

NextClient ==
    \/ CallNew
    \/ CallOption

SpecClient == InitClient /\ [][NextClient]_vars

\* The argument of the last WithPageSize among the options that is
\* positive; 50 when there is none.
RECURSIVE LastPageSize(_)
LastPageSize(opts) ==
    IF opts = <<>> THEN 50
    ELSE LET last == opts[Len(opts)]
         IN  IF last.name = "WithPageSize" /\ last.arg > 0 THEN last.arg
             ELSE LastPageSize(SubSeq(opts, 1, Len(opts) - 1))

\* C16: the page size of a client is positive at all times: 50 from New
\* without a page size option; WithPageSize(size) sets it to size when
\* size > 0, and returns an error and leaves it as it was when size <= 0;
\* after any options applied it is the argument of the last WithPageSize
\* that succeeded, or 50.
C16_PageSizePositive ==
    /\ [](client # Nil
            => /\ client.pageSize > 0
               /\ client.pageSize = LastPageSize(call.opts))
    /\ [][(client # Nil /\ call'.op = "Option" /\ call'.opt.name = "WithPageSize")
            => IF call'.opt.arg > 0
               THEN client'.pageSize = call'.opt.arg /\ ret'.err = NoError
               ELSE client' = client /\ ret'.err # NoError]_vars

\* WithPageSize(0) was refused on a client whose page size had been set.
C16_Witness ==
    /\ client # Nil
    /\ call.op = "Option"
    /\ call.opt = Option("WithPageSize", 0)
    /\ call.opts = <<Option("WithPageSize", MaxPageSize)>>
    /\ client.pageSize = MaxPageSize
    /\ ret.err # NoError

\* The option returns an error whatever client it is applied to.
OptionFails(opt) ==
    CASE opt.name = "WithPageSize" -> opt.arg <= 0
      [] opt.name \in {"WithTimeout", "WithRetry"} -> opt.arg < 0
      [] opt.name = "WithHTTPClient" -> opt.httpClient = Nil
      [] OTHER -> FALSE

\* The message for the first required field of the configuration that is
\* empty, in the order URL, Realm, ClientID, ClientSecret.
FirstMissing(config) ==
    IF config.URL = <<>> THEN <<"URL is required">>
    ELSE IF config.Realm = <<>> THEN <<"realm is required">>
    ELSE IF config.ClientID = <<>> THEN <<"clientID is required">>
    ELSE <<"clientSecret is required">>

Incomplete(config) ==
    <<>> \in {config.URL, config.Realm, config.ClientID, config.ClientSecret}

\* C17: New returns a nil client and an error when URL, Realm, ClientID or
\* ClientSecret is empty, the error naming the first empty one in that
\* order and no request having been sent to the identity server, and when
\* one of the options returns an error; it never returns a client together
\* with an error.
C17_NewFailsWithNilClient ==
    Returned("New")
        => /\ Incomplete(call.config)
                => /\ ret.val = Nil
                   /\ ret.err = NewError(FirstMissing(call.config))
                   /\ requests = <<>>
           /\ (\E i \in DOMAIN call.opts : OptionFails(call.opts[i]))
                => ret.val = Nil /\ ret.err # NoError
           /\ ~(ret.val # Nil /\ ret.err # NoError)
           /\ ret.val = Nil => (ret.err # NoError /\ client = Nil)

\* A complete configuration, the identity server reached, and the second
\* option refused.
C17_Witness ==
    /\ Returned("New")
    /\ ~Incomplete(call.config)
    /\ requests # <<>>
    /\ call.opts = <<Option("WithTimeout", 30), Option("WithPageSize", -1)>>
    /\ ret.val = Nil
    /\ ret.err = NewError(<<"failed to apply option: ", "page size must be positive, got ", "-", "1">>)

\* ------------------------------------------------ Group on the wire

\* A byte that is not valid UTF-8, and the replacement character
\* json.Marshal writes in its place.
InvalidByte == "<0xFF>"
ReplacementChar == "<U+FFFD>"

\* json.Marshal of a string: coerced to valid UTF-8.
coerceUTF8(s) == [i \in DOMAIN s |-> IF s[i] = InvalidByte THEN ReplacementChar ELSE s[i]]

\* JSON values.
JNull == [t |-> "null"]
JString(s) == [t |-> "string", v |-> s]
JNumber(n) == [t |-> "number", v |-> n]
JBool(b) == [t |-> "bool", v |-> b]
JArray(a) == [t |-> "array", v |-> a]
JObject(o) == [t |-> "object", v |-> o]

\* group_model.go:21-33: the wire name of every field; all are pointers
\* tagged omitempty.
GroupTags ==
    [ID |-> "id", Name |-> "name", Description |-> "description", Path |-> "path",
     ParentID |-> "parentId", SubGroupCount |-> "subGroupCount", SubGroups |-> "subGroups",
     Attributes |-> "attributes", Access |-> "access", ClientRoles |-> "clientRoles",
     RealmRoles |-> "realmRoles"]

\* A slice or map with nothing in it stands for both the nil and the empty
\* one; nilEmpties says which it is.  json.Marshal writes null for the nil
\* one.
marshalStrings_FirstValue(a, nilEmpties) ==
    IF a = <<>> /\ nilEmpties THEN JNull
    ELSE JArray([i \in DOMAIN a \cap {1} |-> JString(coerceUTF8(a[i]))])

marshalStrings(a, nilEmpties) ==
    IF a = <<>> /\ nilEmpties THEN JNull
    ELSE JArray([i \in DOMAIN a |-> JString(coerceUTF8(a[i]))])

marshalStringsMap(m, nilEmpties) ==
    IF DOMAIN m = {} /\ nilEmpties THEN JNull
    ELSE JObject([k \in DOMAIN m |-> marshalStrings(m[k], FALSE)])

marshalBoolMap(m, nilEmpties) ==
    IF DOMAIN m = {} /\ nilEmpties THEN JNull
    ELSE JObject([k \in DOMAIN m |-> JBool(m[k])])

\* json.Marshal of a Group: a member for every field that is not a nil
\* pointer.
RECURSIVE marshalGroup(_, _)
marshalGroup(g, nilEmpties) ==
    LET set == {f \in DOMAIN GroupTags : g[f] # Nil}
        fieldOf(k) == CHOOSE f \in set : GroupTags[f] = k
        value(f) ==
            CASE f \in {"ID", "Name", "Description", "Path", "ParentID"} ->
                    JString(coerceUTF8(Deref(g[f])))
              [] f = "SubGroupCount" -> JNumber(Deref(g[f]))
              [] f = "SubGroups" ->
                    IF Deref(g[f]) = <<>> /\ nilEmpties THEN JNull
                    ELSE JArray([i \in DOMAIN Deref(g[f]) |->
                                    IF Deref(g[f])[i] = Nil THEN JNull
                                    ELSE marshalGroup(Deref(Deref(g[f])[i]), nilEmpties)])
              [] f \in {"Attributes", "ClientRoles"} -> marshalStringsMap(Deref(g[f]), nilEmpties)
              [] f = "Access" -> marshalBoolMap(Deref(g[f]), nilEmpties)
              [] f = "RealmRoles" -> marshalStrings(Deref(g[f]), nilEmpties)
    IN  JObject([k \in {GroupTags[f] : f \in set} |-> value(fieldOf(k))])

unmarshalStrings(j) == IF j.t = "null" THEN <<>> ELSE [i \in DOMAIN j.v |-> j.v[i].v]

\* json.Unmarshal into a zero Group: a member that is null, like one that
\* is missing, leaves the pointer nil.
RECURSIVE unmarshalGroup(_)
unmarshalGroup(j) ==
    LET has(f) == GroupTags[f] \in DOMAIN j.v /\ j.v[GroupTags[f]].t # "null"
        m(f) == j.v[GroupTags[f]]
        value(f) ==
            CASE f \in {"ID", "Name", "Description", "Path", "ParentID", "SubGroupCount"} ->
                    Ptr(m(f).v)
              [] f = "SubGroups" ->
                    Ptr([i \in DOMAIN m(f).v |->
                            IF m(f).v[i].t = "null" THEN Nil
                            ELSE Ptr(unmarshalGroup(m(f).v[i]))])
              [] f \in {"Attributes", "ClientRoles"} ->
                    Ptr([k \in DOMAIN m(f).v |-> unmarshalStrings(m(f).v[k])])
              [] f = "Access" -> Ptr([k \in DOMAIN m(f).v |-> m(f).v[k].v])
              [] f = "RealmRoles" -> Ptr(unmarshalStrings(m(f)))
    IN  [f \in DOMAIN GroupTags |-> IF has(f) THEN value(f) ELSE Nil]

\* A sub-group with a sub-group of its own, and a nil entry beside it.
WireSubGroups ==
    <<Ptr([ZeroGroup EXCEPT
            !.ID = Ptr(<<"g9">>),
            !.Attributes = Ptr([k \in {"customID"} |-> << <<"v">>, <<"w">> >>]),
            !.SubGroups = Ptr(<<Ptr([ZeroGroup EXCEPT !.ID = Ptr(<<"g3">>)])>>)]),
      Nil>>

\* Groups with every optional field set.
WireGroups ==
    {[ID |-> Ptr(id), Name |-> Ptr(name), Description |-> Ptr(<<>>),
      Path |-> Ptr(<<"/", "n">>), ParentID |-> Ptr(<<"p">>), SubGroupCount |-> Ptr(count),
      SubGroups |-> Ptr(subs), Attributes |-> Ptr(attrs),
      Access |-> Ptr([k \in {"view", "manage"} |-> k = "view"]),
      ClientRoles |-> Ptr([k \in {"account"} |-> << <<"view-profile">> >>]),
      RealmRoles |-> Ptr(roles)] :
        id \in {<<"g1">>, <<"g", InvalidByte>>},
        name \in {<<"n">>, <<"n", ReplacementChar>>},
        count \in {0, 2},
        subs \in {<<>>, WireSubGroups},
        attrs \in {NilMap,
                   [k \in {"customID"} |-> << <<"v">>, <<"w">> >>],
                   [k \in {"customID", "empty"} |-> IF k = "empty" THEN <<>> ELSE << <<"v">> >>]},
        roles \in {<<>>, <<<<"admin">>, <<"user">>>>}}

\* A group is written to the wire and read back, as a body sent by Create
\* and returned by Get is.
CallRoundTrip ==
    /\ pc = "idle"
    /\ \E g \in WireGroups, nilEmpties \in BOOLEAN :
            Finish([op |-> "RoundTrip", group |-> g, nilEmpties |-> nilEmpties],
                   Local(Ptr(unmarshalGroup(marshalGroup(g, nilEmpties))), NoError))

NextWire == CallRoundTrip

SpecWire == Init /\ [][NextWire]_vars

RECURSIVE ValidUTF8Group(_)
\* Every string of the group, and of its sub-groups, is valid UTF-8.
ValidUTF8Group(g) ==
    /\ \A f \in {"ID", "Name", "Description", "Path", "ParentID"} :
            g[f] # Nil => \A i \in DOMAIN Deref(g[f]) : Deref(g[f])[i] # InvalidByte
    /\ g.SubGroups # Nil =>
            \A i \in DOMAIN Deref(g.SubGroups) :
                Deref(g.SubGroups)[i] # Nil => ValidUTF8Group(Deref(Deref(g.SubGroups)[i]))

RECURSIVE HasEmpty(_)
\* Some map or slice field of the group, or of a sub-group, holds nothing.
HasEmpty(g) ==
    \/ \E f \in {"Attributes", "Access", "ClientRoles"} : g[f] # Nil /\ DOMAIN Deref(g[f]) = {}
    \/ \E f \in {"SubGroups", "RealmRoles"} : g[f] # Nil /\ Deref(g[f]) = <<>>
    \/ /\ g.SubGroups # Nil
       /\ \E i \in DOMAIN Deref(g.SubGroups) :
            Deref(g.SubGroups)[i] # Nil /\ HasEmpty(Deref(Deref(g.SubGroups)[i]))

\* C18 as stated: a group with every optional field set comes back from
\* marshalling and unmarshalling with every field as it was.
C18_RoundTripExact ==
    Returned("RoundTrip") => ret.val = Ptr(call.group)

\* C18: a group with every optional field set, whose strings are valid
\* UTF-8 and whose map and slice fields do not point to nil maps or slices,
\* comes back from marshalling and unmarshalling with every field as it
\* was, nested sub-groups and attributes of several values included.
C18_RoundTripExactWhenValidAndNonNil ==
    (/\ Returned("RoundTrip")
     /\ ValidUTF8Group(call.group)
     /\ ~(call.nilEmpties /\ HasEmpty(call.group)))
        => ret.val = Ptr(call.group)

C18_Witness ==
    /\ Returned("RoundTrip")
    /\ ValidUTF8Group(call.group)
    /\ ~HasEmpty(call.group)
    /\ call.nilEmpties
    /\ Deref(call.group.SubGroups) = WireSubGroups
    /\ Len(Deref(call.group.Attributes)["customID"]) = 2
    /\ ret.val = Ptr(call.group)

\* ------------------------------------------------ the scan on its own

\* group.go:458-477 applied to the groups of the collection.
CallFindGroupByAttribute ==
    /\ pc = "idle"
    /\ Finish([op |-> "findGroupByAttribute", groups |-> collection,
               attribute |-> SearchedAttribute],
              Local(findGroupByAttribute(collection, SearchedAttribute), NoError))

NextFind == CallFindGroupByAttribute

SpecFind == InitSearch /\ [][NextFind]_vars

\* C19: findGroupByAttribute returns (g, true) for the first group of the
\* slice whose attributes hold exactly the one value under the key, nil
\* groups, groups without attributes, groups without the key and groups with
\* other values being skipped, and (nil, false) only when no group of the
\* slice is such a group.
C19_FindReturnsFirstMatch ==
    Returned("findGroupByAttribute") =>
        IF MatchIndexes # {}
        THEN ret.val = [group |-> call.groups[FirstMatch], ok |-> TRUE]
        ELSE ret.val = [group |-> Nil, ok |-> FALSE]

\* ------------------------------------------------ non-2xx responses

\* The last request of the call was answered with a status outside 2xx.
Refused == resp # Nil /\ Deref(resp).kind = "http" /\ ~IsSuccess(Deref(resp))

\* C20 as stated: in every operation a non-2xx response gives an error
\* with the operation's prefix and a zero result, an error never comes with
\* a result that is not zero, and no operation other than Get returns the
\* GroupNotFound sentinel for a 404.
C20_RefusedIsPrefixedError ==
    pc = "done" =>
        /\ Refused =>
            /\ ret.err.kind = "remote"
            /\ ret.err.msg = PrefixOf(call.op)
            /\ ret.val = ZeroOf(call.op)
            /\ (Deref(resp).status = 404 /\ call.op # "Get") => ret.err # ErrGroupNotFound
        /\ ret.err # NoError => ret.val = ZeroOf(call.op)

\* C20: in every operation a non-2xx response gives a zero result and an
\* error with the operation's prefix, but for Get on a 404, whose error is
\* the GroupNotFound sentinel without a prefix; an error never comes with a
\* result that is not zero, and no operation other than Get returns the
\* sentinel for a 404.
C20_RefusedIsPrefixedErrorButGet404 ==
    pc = "done" =>
        /\ Refused =>
            /\ ret.err # NoError
            /\ ret.val = ZeroOf(call.op)
            /\ IF call.op = "Get" /\ Deref(resp).status = 404
               THEN ret.err = ErrGroupNotFound
               ELSE /\ ret.err.kind = "remote"
                    /\ ret.err.msg = PrefixOf(call.op)
                    /\ ret.err.status = Deref(resp).status
        /\ ret.err # NoError => ret.val = ZeroOf(call.op)

\* Delete was answered with a 404.
C20_Witness ==
    /\ Returned("Delete")
    /\ Refused
    /\ Deref(resp).status = 404
    /\ ret.err = WrapRemote(<<"unable to delete group">>, Deref(resp))
    /\ ret.val = Nil

\* ------------------------------------------------ id of a created group

SlashFree(s) == \A i \in DOMAIN s : s[i] # "/"

\* The stretches of s.
Stretches(s) == {SubSeq(s, i, j) : i \in DOMAIN s, j \in DOMAIN s}

\* s ends in "/<id>/".
EndsWithIdSlash(s, id) ==
    /\ id # <<>> /\ SlashFree(id)
    /\ Len(s) >= Len(id) + 2
    /\ s[Len(s)] = "/"
    /\ SubSeq(s, Len(s) - Len(id), Len(s) - 1) = id
    /\ s[Len(s) - Len(id) - 1] = "/"

\* s ends in "//<host>": a URL without a path.
EndsWithHost(s, host) ==
    /\ host # <<>> /\ SlashFree(host)
    /\ Len(s) >= Len(host) + 2
    /\ SubSeq(s, Len(s) - Len(host) + 1, Len(s)) = host
    /\ s[Len(s) - Len(host)] = "/"
    /\ s[Len(s) - Len(host) - 1] = "/"

\* C21: the id a 2xx Create or CreateSubGroup takes from the Location header
\* is <id> for a header ending in "/<id>/", the trailing slash being
\* ignored, is the host name for a header ending in "//<host>", and is the
\* empty string only when the header is absent or empty.
C21_GetIDIgnoresTrailingSlashes ==
    CreatedOn2xx =>
        /\ \A id \in Stretches(Location) : EndsWithIdSlash(Location, id) => ret.val = id
        /\ \A host \in Stretches(Location) : EndsWithHost(Location, host) => ret.val = host
        /\ (ret.val = <<>>) <=> (Location = <<>>)

\* Create was answered 201 with a Location ending in "/a/".
C21_Witness ==
    /\ Returned("Create")
    /\ Deref(resp).kind = "http" /\ Deref(resp).status = 201
    /\ Location = <<"/", "a", "/">>
    /\ ret.val = <<"a">>

\* Create was answered 201 with a Location of a host alone.
C21_WitnessHost ==
    /\ Returned("Create")
    /\ Deref(resp).kind = "http" /\ Deref(resp).status = 201
    /\ Location = <<"/", "/", "b">>
    /\ ret.val = <<"b">>

\* ------------------------------------------------ the list wrappers

\* What ListWithParams comes to with the given fields set and all others
\* nil, against the answer the call got.
WithParamsAlone(fields) ==
    ListWithParams(client,
                   [f \in DOMAIN ZeroParams(SearchGroupParamsTags) |->
                        IF f \in DOMAIN fields THEN fields[f] ELSE Nil],
                   Deref(resp))

\* C22: List sends the request ListWithParams sends for Search and
\* BriefRepresentation alone, ListPaginated the one it sends for Search,
\* BriefRepresentation, First and Max, and against the same answer each
\* returns the result and error ListWithParams returns.
C22_WrappersAreListWithParams ==
    /\ Returned("List") =>
            LET alone == WithParamsAlone([Search |-> call.search,
                                          BriefRepresentation |-> Ptr(call.briefRepresentation)])
            IN  requests = alone.requests /\ ret = alone.ret
    /\ Returned("ListPaginated") =>
            LET alone == WithParamsAlone([Search |-> call.search,
                                          BriefRepresentation |-> Ptr(call.briefRepresentation),
                                          First |-> Ptr(call.first), Max |-> Ptr(call.max)])
            IN  requests = alone.requests /\ ret = alone.ret

\* ListPaginated asked for one group from offset 0 on and got it.
C22_Witness ==
    /\ Returned("ListPaginated")
    /\ call.first = 0 /\ call.max = 1
    /\ requests[1].query["first"] = <<"0">>
    /\ requests[1].query["max"] = <<"1">>
    /\ ret.err = NoError
    /\ ret.val = SubSeq(collection, 1, 1)

\* ------------------------------------------------ the body of Update

ChannelStructTags == {Tag("Ch", "ch", "chan", FALSE)}
FuncStructTags == {Tag("Fn", "fn", "func", FALSE)}
MixedStructTags ==
    {Tag("Name", "name", "string", FALSE), Tag("Count", "count", "int", FALSE),
     Tag("Flag", "flag", "bool", FALSE), Tag("Channel", "Channel", "chan", FALSE)}

TwiceTags ==
    {ChannelStructTags, FuncStructTags, MixedStructTags, CountGroupParamsTags,
     GroupMembersParamsTags}

\* mapper called on the same value two times in a row.
CallMapperTwice ==
    /\ pc = "idle"
    /\ \E tags \in TwiceTags :
        \E s \in ParamsOf(tags) :
            LET first == [val |-> mapper(tags, s), err |-> mapperErr(tags, s)]
                second == [val |-> mapper(tags, s), err |-> mapperErr(tags, s)]
            IN  Finish([op |-> "mapperTwice", tags |-> tags, s |-> s],
                       Local(<<first, second>>, second.err))

NextMapperTwice == CallMapperTwice

SpecMapperTwice == Init /\ [][NextMapperTwice]_vars

C24_WitnessEqual ==
    /\ Returned("mapperTwice")
    /\ call.tags = CountGroupParamsTags
    /\ DOMAIN ret.val[1].val = {"search", "top"}
    /\ ret.val[1] = ret.val[2]

\* ------------------------------------------------ options of the transport

\* C25: applied to a client, WithTimeout returns an error for a negative
\* timeout and sets a timeout of zero or more, WithRetry returns an error for
\* a negative count and sets a count of zero or more, and WithHTTPClient
\* returns an error for a nil http client and installs any other; an option
\* that returns an error leaves the client as it was.
C25_RejectedOptionLeavesTransport ==
    [][(client # Nil /\ call'.op = "Option") =>
        /\ call'.opt.name = "WithTimeout" =>
                IF call'.opt.arg < 0
                THEN ret'.err # NoError
                ELSE ret'.err = NoError /\ client'.resty.timeout = call'.opt.arg
        /\ call'.opt.name = "WithRetry" =>
                IF call'.opt.arg < 0
                THEN ret'.err # NoError
                ELSE ret'.err = NoError /\ client'.resty.retryCount = call'.opt.arg
        /\ call'.opt.name = "WithHTTPClient" =>
                IF call'.opt.httpClient = Nil
                THEN ret'.err # NoError
                ELSE /\ ret'.err = NoError
                     /\ client'.resty.httpClient = Deref(call'.opt.httpClient).name
        /\ ret'.err # NoError => client' = client]_vars

\* WithHTTPClient(nil) was refused on a client with three retries, which it
\* kept.
C25_Witness ==
    /\ client # Nil
    /\ call.op = "Option"
    /\ call.opt = [name |-> "WithHTTPClient", httpClient |-> Nil]
    /\ call.opts = <<Option("WithRetry", 3)>>
    /\ ret.err = NewError(<<"http client cannot be nil">>)
    /\ client.resty.retryCount = 3
    /\ client.resty.httpClient = "oauth"

\* WithTimeout(0) and WithRetry(0) were accepted.
C25_WitnessZero ==
    /\ client # Nil
    /\ call.op = "Option"
    /\ call.opt = Option("WithRetry", 0)
    /\ call.opts = <<Option("WithTimeout", 0), Option("WithRetry", 0)>>
    /\ ret.err = NoError

\* ------------------------------------------------ what a search returns

\* The two searches by attribute, over every collection within the bounds.
NextAttributeSearch ==
    \/ CallGetByAttribute
    \/ GetByAttributeLoop
    \/ CallGetSubGroupByAttribute

SpecAttributeSearch == InitSearch /\ [][NextAttributeSearch]_vars

\* The group returned is the first of the groups that holds exactly the one
\* value under the key, and is among the first n of them.
FirstMatchAmong(groups, n) ==
    \E i \in DOMAIN groups :
        /\ i <= n
        /\ groups[i] = ret.val
        /\ Matches(groups[i], SearchedAttribute)
        /\ \A j \in 1..(i - 1) : ~Matches(groups[j], SearchedAttribute)

\* C26: a group GetByAttribute or GetSubGroupByAttribute returns with a nil
\* error is not nil, was on a fetched page (among the sub-groups given),
\* holds exactly the one value under the key, and no group before it, on its
\* page or an earlier one, does.
C26_AttributeSearchSound ==
    /\ (Returned("GetByAttribute") /\ ret.err = NoError) =>
            /\ ret.val # Nil
            /\ FirstMatchAmong(collection, Len(requests) * client.pageSize)
    /\ (Returned("GetSubGroupByAttribute") /\ ret.err = NoError) =>
            /\ ret.val # Nil
            /\ FirstMatchAmong(Deref(call.group.SubGroups), Len(Deref(call.group.SubGroups)))

\* ------------------------------------------------ the search ends

\* Collections of groups without the searched value, with or without a
\* match at the end.
LongSearches ==
    {MakeCollection([i \in 1..n |-> IF i = n /\ last THEN "v" ELSE "w"]) :
        n \in 0..MaxGroups, last \in BOOLEAN}

InitSearchFair ==
    /\ client \in [baseURL : {<<"https://kc">>}, realm : {<<"r1">>}, pageSize : PageSizes]
    /\ collection \in LongSearches
    /\ pc = "idle"
    /\ call = NoCall
    /\ currentPage = 0
    /\ requests = <<>>
    /\ resp = Nil
    /\ ret = NoRet

\* The searches over these collections, with the page loop taking its next
\* pass whenever it has one to take: nothing in the loop waits on anything
\* but the answer to its fetch, and the transport always answers or fails.
SpecSearchFair == InitSearchFair /\ [][NextSearch]_vars /\ WF_vars(GetByAttributeLoop)

\* The groups the last answer carried.
LastPage == Deref(Deref(resp).body)

\* The last request of the call was answered 2xx.
LastServed == resp # Nil /\ Deref(resp).kind = "http" /\ IsSuccess(Deref(resp))

\* C27: a started GetByAttribute returns; when it has, it has a match, or
\* the error of a failed fetch, or GroupNotFound after a page shorter than
\* the page size; every fetch but the first follows a full page, so no page
\* is fetched after a short one.
C27_SearchTerminates ==
    /\ (pc = "paging") ~> (pc = "done")
    /\ [](Returned("GetByAttribute") /\ SearchStarted =>
            \/ ret.err = NoError /\ ret.val # Nil /\ LastServed
            \/ ret.err.kind \in {"transport", "remote"} /\ ret.val = Nil /\ ~LastServed
            \/ /\ ret.err = ErrGroupNotFound /\ ret.val = Nil
               /\ LastServed /\ Len(LastPage) < client.pageSize)
    /\ [][(requests' # requests /\ requests # <<>>)
            => LastServed /\ Len(LastPage) = client.pageSize]_vars

\* The search went through a full page and ended on the short one after it.
C27_Witness ==
    /\ Returned("GetByAttribute")
    /\ Len(requests) = 2
    /\ ret.err = ErrGroupNotFound
    /\ LastPage # <<>>
    /\ Len(LastPage) < client.pageSize

\* ------------------------------------------------ the fetches of a search

\* C28: the requests of one GetByAttribute are, for i = 0, 1, 2, ..., a GET
\* of the groups with first = i * pageSize, max = pageSize,
\* briefRepresentation = false and no search term; the offsets increase
\* strictly, so no page is asked for twice, and every request carries the
\* same page size.
C28_FetchesAreSequential ==
    call.op = "GetByAttribute" =>
        /\ \A i \in DOMAIN requests :
            /\ requests[i].method = "GET"
            /\ requests[i].url = buildURL(client, endpointGroupsList, NilMap, <<>>)
            /\ DOMAIN requests[i].query = {"briefRepresentation", "first", "max"}
            /\ requests[i].query["briefRepresentation"] = <<"false">>
            /\ requests[i].query["first"] = Itoa((i - 1) * client.pageSize)
            /\ requests[i].query["max"] = Itoa(client.pageSize)
        /\ \A i \in DOMAIN requests : \A j \in DOMAIN requests :
            i < j => /\ Atoi(requests[i].query["first"]) < Atoi(requests[j].query["first"])
                     /\ requests[i].query["max"] = requests[j].query["max"]

\* Two pages of two groups were asked for.
C28_Witness ==
    /\ call.op = "GetByAttribute"
    /\ client.pageSize = 2
    /\ Len(requests) = 2
    /\ requests[2].query["first"] = <<"2">>
    /\ requests[2].query["max"] = <<"2">>

\* ------------------------------------------------ buildURL called twice

\* buildURL called two times on the same endpoint and map, the range over
\* the map running in an order of its own each time.
CallBuildURLTwice ==
    \E ep \in Endpoints, params \in ParamMaps :
        \E first \in RangeOrders(params), second \in RangeOrders(params) :
            /\ pc = "idle"
            /\ call' = [op |-> "buildURLTwice", ep |-> ep, params |-> params,
                        orders |-> <<first, second>>]
            /\ ret' = [val |-> <<buildURL(client, ep, params, first),
                                 buildURL(client, ep, params, second)>>,
                       err |-> NoError]
            /\ pc' = "done"
            /\ UNCHANGED <<client, collection, currentPage, requests, resp>>

NextURLTwice == CallBuildURLTwice

SpecURLTwice == InitURL /\ [][NextURLTwice]_vars

\* No map value holds a {key} token for another key of the map.
NoTokenInValues(params) ==
    \A k, k2 \in DOMAIN params : k # k2 => ~HasToken(params[k], k2)

\* C29 as stated: two calls of buildURL with the same endpoint, base URL,
\* realm and map return the same URL whatever the orders in which the map's
\* entries were substituted, the realm or a value holding a placeholder
\* included.
C29_BuildURLOrderFree ==
    Returned("buildURLTwice") => ret.val[1] = ret.val[2]

\* C29: two calls of buildURL with the same endpoint, base URL, realm and
\* map return the same URL whatever the orders in which the map's entries
\* were substituted, provided no map value holds a {key} token for another
\* key of the map; the realm may hold any token.
C29_BuildURLOrderFreeNoToken ==
    (Returned("buildURLTwice") /\ NoTokenInValues(call.params)) => ret.val[1] = ret.val[2]

\* Two entries substituted in the two opposite orders, the first after a
\* realm holding its token, gave the same URL.
C29_Witness ==
    /\ Returned("buildURLTwice")
    /\ client.realm = <<"{", "groupID", "}">>
    /\ call.ep = endpointGroupGet
    /\ call.params = [k \in {"groupID", "other"} |-> IF k = "groupID" THEN <<"g1">> ELSE <<>>]
    /\ call.orders[1] # call.orders[2]
    /\ ret.val[1] = ret.val[2]
    /\ ret.val[1] = client.baseURL \o <<"/admin/realms/", "g1", "/groups", "/", "g1">>

\* ------------------------------------------------ order of the options

\* The places of the options of the name among opts.
Places(opts, name) == {i \in DOMAIN opts : opts[i].name = name}

Last(places) == CHOOSE i \in places : \A j \in places : j <= i

\* The transport the options leave: that of the last WithHTTPClient, or the
\* one New made when there is none, with the settings of the options after
\* it alone.
TransportOf(opts) ==
    LET clients == Places(opts, "WithHTTPClient")
        from == IF clients = {} THEN 0 ELSE Last(clients)
        start == IF clients = {} THEN DefaultResty
                 ELSE NewWithClient(Deref(opts[from].httpClient))
        after(name) == {i \in Places(opts, name) : i > from}
    IN  [httpClient |-> start.httpClient,
         timeout |-> IF after("WithTimeout") = {} THEN start.timeout
                     ELSE opts[Last(after("WithTimeout"))].arg,
         retryCount |-> IF after("WithRetry") = {} THEN 0
                        ELSE opts[Last(after("WithRetry"))].arg,
         debug |-> after("WithDebug") # {},
         header |-> [k \in (IF after("WithHeaders") = {} THEN {} ELSE DOMAIN RequestIDHeader)
                            \cup (IF after("WithUserAgent") = {} THEN {} ELSE {"User-Agent"}) |->
                        IF k = "User-Agent" THEN opts[Last(after("WithUserAgent"))].userAgent
                        ELSE RequestIDHeader[k]]]

\* C30: the transport of a client is what its options make of it in the
\* order given: WithHTTPClient puts a new transport in place of the one
\* before it, so the timeout, retries, headers, user agent and debug setting
\* of options before it are gone and those of options after it hold; the
\* page size is that of the last WithPageSize wherever WithHTTPClient stands.
C30_OptionOrderMatters ==
    client # Nil =>
        /\ client.resty = TransportOf(call.opts)
        /\ client.pageSize = LastPageSize(call.opts)

\* New was given three retries and then an http client: no retries are left.
C30_Witness ==
    /\ Returned("New")
    /\ ret.err = NoError
    /\ call.opts = <<Option("WithRetry", 3),
                     [name |-> "WithHTTPClient", httpClient |-> Ptr(CallerHTTPClient)]>>
    /\ client.resty.httpClient = "caller"
    /\ client.resty.retryCount = 0

\* New was given an http client and then three retries: they hold.
C30_WitnessAfter ==
    /\ Returned("New")
    /\ ret.err = NoError
    /\ call.opts = <<[name |-> "WithHTTPClient", httpClient |-> Ptr(CallerHTTPClient)],
                     Option("WithRetry", 3)>>
    /\ client.resty.httpClient = "caller"
    /\ client.resty.retryCount = 3

====
